---------------------------- MODULE Spec2Model ----------------------------
(***************************************************************************)
(* Faucet DApp backend: the SIWE challenge / sign-in protocol              *)
(* (routes/auth.ts), the JWT middleware (middleware/auth.ts), the claim    *)
(* endpoint (routes/faucet.ts) and the two ledgers behind it               *)
(* (utils/ethereum.ts, utils/demoService.ts).                              *)
(*                                                                         *)
(* Node runs every handler on one event loop: a handler runs without       *)
(* interruption from its start to its first `await` of an external         *)
(* promise, and from one such `await` to the next.  Each action below is   *)
(* one such run.  Time is in milliseconds, as Date.now() gives it.         *)
(*                                                                         *)
(* Two specifications share the module:                                    *)
(*   SpecAuth   POST /auth/message, POST /auth/signin, the nonce sweep     *)
(*   SpecClaim  POST /faucet/claim behind authenticateToken and            *)
(*              claimLimiter, over the demo ledger or the chain            *)
(***************************************************************************)
EXTENDS Integers, Sequences, FiniteSets, Bags, TLC

VARIABLES
    now,          \* Date.now()
    nonceStore,   \* auth.ts:15  Map<string, {nonce, timestamp}>
    nextSweep,    \* when the setInterval callback of auth.ts:18 is next due
    nonceSeq,     \* number of nonces generateNonce has produced
    msgs,         \* challenge messages handed out to clients
    pending,      \* bag of sign-in handlers suspended at
                  \* `await siweMessage.verify`, each with what its closure
                  \* holds (message, signature, req, storedNonce)
    reqSeq,       \* number of sign-in requests that reached verify
    sessions,     \* bag of the nonces of the successful sign-ins (history)
    spoiled,      \* addresses with an attempt refused for a wrong signature
                  \* or a differing nonce since their last challenge
                  \* (history, read by no handler)
    last,         \* the response being written to the socket, or Idle
    demoMode,     \* config.DEMO_MODE, fixed when the process starts
    claimHits,    \* claimLimiter's store: per client IP, the hits of the
                  \* current window and the time the window ends
    claimSeq,     \* number of claim requests that reached claimLimiter
    inflight,     \* bag of claim handlers suspended at a ledger call, each
                  \* with what its closure holds (req, userAddress)
    claimedAddresses, \* demoService.ts:16  Set<string>
    demoUsers,    \* demoService.ts:9   string[]
    chainClaimed, \* the contract's record of the accounts that have claimed
    txSeq,        \* number of transaction hashes handed out
    claimsOk,     \* bag of the tokens of the claim requests answered with
                  \* success (history)
    generalHits,  \* generalLimiter's store: per client IP, the hits of the
                  \* current window and the time the window ends
    faucetHits,   \* faucetLimiter's store, likewise
    gateSeq,      \* number of requests that reached generalLimiter
    authSeen,     \* per client IP, the number of requests to /auth routes
                  \* received so far (history)
    trip,         \* a challenge on its way: the fields the issuer built it
                  \* from, its text as the client holds it, and what the
                  \* sign-in route parsed from it
    isConnected,  \* useAccount().isConnected as the client last rendered it
    apiToken,     \* api.ts:57  ApiService.token, "" for null
    authStatus,   \* useAuth.ts:18
    isAuthenticated, \* useAuth.ts:20
    authError,    \* useAuth.ts:19  error
    calls,        \* bag of the authenticate() calls in flight, each by the
                  \* await it is suspended at
    resetTimers,  \* number of pending setTimeout callbacks of useAuth.ts:113
    authSeq,      \* number of authenticate() calls started
    walletSeq,    \* number of times the wallet connected or disconnected
    loggedOut     \* the last of handleLogout and authenticate() to be
                  \* called was handleLogout (history, read by no handler)

authVars == <<nonceStore, nextSweep, nonceSeq, msgs, pending, reqSeq,
              sessions, spoiled>>

claimVars == <<demoMode, claimHits, claimSeq, inflight, claimedAddresses,
               demoUsers, chainClaimed, txSeq, claimsOk>>

gateVars == <<generalHits, faucetHits, gateSeq, authSeen>>

clientVars == <<isConnected, apiToken, authStatus, isAuthenticated, authError,
                calls, resetTimers, authSeq, walletSeq, loggedOut>>

vars == <<now, last, authVars, claimVars, gateVars, trip, clientVars>>

---------------------------------------------------------------------------
(* Bounds of the model *)

MaxRequests == 3       \* requests that change the server's state: challenges
                       \* issued plus sign-ins that reach verify
MaxAuthTicks == 2      \* clock steps of AuthTick in SpecAuth

(* The clock of SpecAuth advances in steps of ten minutes, so that a       *)
(* record can be exactly 10 minutes old (not expired) and 20 (expired).    *)
AuthTick == 10 * 60 * 1000

---------------------------------------------------------------------------
(* Addresses.  "0xAb" and "0xab" stand for one 40-digit address in two     *)
(* letter casings, "0xCd" for another one, "0x123" for a malformed one     *)
(* and "" for a missing body field.                                        *)

ValidAddresses == {"0xAb", "0xab", "0xCd"}
AddressInputs == ValidAddresses \cup {"0x123", ""}

\* String.prototype.toLowerCase
toLowerCase(a) ==
    CASE a = "0xAb" -> "0xab"
      [] a = "0xCd" -> "0xcd"
      [] a = "0x8bH" -> "0x8bh"
      [] OTHER -> a

\* mutant: no format check
IsAddressFormat_Any(a) == TRUE

\* /^0x[a-fA-F0-9]{40}$/.test(address)
IsAddressFormat(a) == a \in ValidAddresses \cup {toLowerCase(x) : x \in ValidAddresses}

\* the Host header of a request: present, or absent (HTTP/1.0)
NoHost == "<none>"
Hosts == {"api.faucet", NoHost}
\* challenges are requested under the server's name; sign-in requests come
\* with either
MessageHosts == {"api.faucet"}

expireTime == 10 * 60 * 1000
sweepInterval == 10 * 60 * 1000

---------------------------------------------------------------------------
(* The Map operations used on nonceStore *)

MapHas(m, k) == k \in DOMAIN m
MapSet(m, k, v) == [x \in DOMAIN m \cup {k} |-> IF x = k THEN v ELSE m[x]]
MapDelete(m, k) == [x \in DOMAIN m \ {k} |-> m[x]]
EmptyMap == [x \in {} |-> 0]

---------------------------------------------------------------------------
(* Responses.  A handler that answers leaves its response in `last`; the   *)
(* event loop takes the next event once the response has been written      *)
(* (Deliver).                                                              *)

NoToken == [address |-> "", iat |-> 0, exp |-> 0, key |-> ""]

Event(op, addr, nonce, status, error) ==
    [op |-> op, addr |-> addr, nonce |-> nonce, status |-> status,
     error |-> error, token |-> NoToken]

\* generateNonce: 32 random hex digits.  The draws are taken to be pairwise
\* distinct; the k-th draw is written k.
generateNonce == nonceSeq + 1

\* jwt.sign(payload, JWT_SECRET, {expiresIn: '24h', ...}): iat and exp are
\* in seconds
JwtSign(address, t) ==
    [address |-> address, iat |-> t \div 1000,
     exp |-> (t \div 1000) + 24 * 60 * 60, key |-> "JWT_SECRET"]

Idle == Event("idle", "", 0, 0, "")

\* no challenge on its way
NoTrip == [stage |-> "idle"]

---------------------------------------------------------------------------
(* The demo ledger's initial data (demoService.ts:9-19).  "0xAb" stands    *)
(* for the first seeded address, written with mixed-case letters; "0x8bH"  *)
(* for the second, whose text holds the letter H and is no address;        *)
(* "0x12" and "0xef" for the two all-lowercase entries of the user list.   *)

InitialClaimed == {"0xAb", "0x8bH"}
InitialUsers == <<"0xAb", "0x8bH", "0x12", "0xef">>

---------------------------------------------------------------------------
Init ==
    /\ now = 0
    /\ nonceStore = EmptyMap
    /\ nextSweep = sweepInterval
    /\ nonceSeq = 0
    /\ msgs = {}
    /\ pending = EmptyBag
    /\ reqSeq = 0
    /\ sessions = EmptyBag
    /\ spoiled = {}
    /\ last = Idle
    /\ demoMode \in BOOLEAN
    /\ claimHits = EmptyMap
    /\ claimSeq = 0
    /\ inflight = EmptyBag
    /\ claimedAddresses = InitialClaimed
    /\ demoUsers = InitialUsers
    /\ chainClaimed = {}
    /\ txSeq = 0
    /\ claimsOk = EmptyBag
    /\ generalHits = EmptyMap
    /\ faucetHits = EmptyMap
    /\ gateSeq = 0
    /\ authSeen = EmptyMap
    /\ trip = NoTrip
    /\ isConnected = FALSE
    /\ apiToken = ""
    /\ authStatus = "idle"
    /\ isAuthenticated = FALSE
    /\ authError = ""
    /\ calls = EmptyBag
    /\ resetTimers = 0
    /\ authSeq = 0
    /\ walletSeq = 0
    /\ loggedOut = TRUE

---------------------------------------------------------------------------
(* POST /auth/message  (auth.ts:33-106) *)

\* auth.ts:61  req.get('host') || 'localhost:3003'
MessageDomain(host) == IF host = NoHost THEN "localhost:3003" ELSE host

\* auth.ts:69-81  the SIWE message built for the client
BuildMessage(address, host, nonce, t) ==
    [kind |-> "siwe", address |-> address, nonce |-> nonce,
     domain |-> MessageDomain(host),
     issuedAt |-> t, expirationTime |-> t + 10 * 60 * 1000]

\* mutant: the record is keyed by the address as the client wrote it
StoreAfterMessage_KeepCase(store, address, nonce, t) ==
    MapSet(store, address, [nonce |-> nonce, timestamp |-> t])

\* auth.ts:86-89  nonceStore.set(address.toLowerCase(), {nonce, timestamp})
StoreAfterMessage(store, address, nonce, t) ==
    MapSet(store, toLowerCase(address), [nonce |-> nonce, timestamp |-> t])

Message(address, host) ==
    /\ last = Idle
    /\ UNCHANGED <<now, nextSweep, pending, reqSeq, sessions, claimVars,
                   gateVars, trip,
                   clientVars>>
    /\ IF address = "" THEN
           /\ last' = Event("message", address, 0, 400, "Direccion requerida")
           /\ UNCHANGED <<nonceStore, nonceSeq, msgs, spoiled>>
       ELSE IF ~IsAddressFormat(address) THEN
           /\ last' = Event("message", address, 0, 400, "Direccion invalida")
           /\ UNCHANGED <<nonceStore, nonceSeq, msgs, spoiled>>
       ELSE
           /\ nonceSeq + reqSeq < MaxRequests
           /\ nonceSeq' = nonceSeq + 1
           /\ msgs' = msgs \cup {BuildMessage(address, host, generateNonce, now)}
           /\ nonceStore' = StoreAfterMessage(nonceStore, address, generateNonce, now)
           /\ spoiled' = spoiled \ {toLowerCase(address)}
           /\ last' = Event("message", toLowerCase(address), generateNonce, 200, "")

---------------------------------------------------------------------------
(* POST /auth/signin  (auth.ts:112-261) *)

\* what a client can put in the body: a message it was given, text that is
\* no SIWE message, or nothing
GarbageMsg ==
    [kind |-> "garbage", address |-> "", nonce |-> 0, domain |-> "",
     issuedAt |-> 0, expirationTime |-> 0]
MissingMsg ==
    [kind |-> "missing", address |-> "", nonce |-> 0, domain |-> "",
     issuedAt |-> 0, expirationTime |-> 0]

\* the signature of the body: made by the key that controls the message's
\* address, made by another key, or missing
SigKinds == {"owner", "other", ""}

\* auth.ts:121
DataIncomplete(m, sig) == m.kind = "missing" \/ sig = ""

\* auth.ts:168-182  new SiweMessage(cleanedMessage) throws
ParseFails(m) == m.kind # "siwe"

\* mutant: the comparison with the stored nonce is left out
NonceInvalid_PresenceOnly(store, m) == ~MapHas(store, toLowerCase(m.address))

\* auth.ts:185-186  !storedNonce || storedNonce.nonce !== siweMessage.nonce
NonceInvalid(store, m) ==
    \/ ~MapHas(store, toLowerCase(m.address))
    \/ store[toLowerCase(m.address)].nonce # m.nonce

\* mutant: a time-to-live of 10 hours instead of 10 minutes
NonceExpired_LongTtl(store, m, t) ==
    t - store[toLowerCase(m.address)].timestamp > 10 * 60 * 60 * 1000

\* auth.ts:195  Date.now() - storedNonce.timestamp > 10 * 60 * 1000
NonceExpired(store, m, t) ==
    t - store[toLowerCase(m.address)].timestamp > 10 * 60 * 1000

\* auth.ts:208  req.get('host') || 'localhost:3001'
VerifyDomain(host) == IF host = NoHost THEN "localhost:3001" ELSE host

\* mutant: any signature is taken for the owner's
SiweVerify_AnySignature(m, sig, domain, nonce, t) ==
    IF domain # m.domain \/ nonce # m.nonce \/ t >= m.expirationTime
    THEN "throw"
    ELSE "success"

\* auth.ts:206-210  siweMessage.verify({signature, domain, nonce}): the
\* library rejects on a domain or nonce that differs from the message's and
\* on a message past its expirationTime, and reports success exactly for a
\* signature by the key of the message's address
SiweVerify(m, sig, domain, nonce, t) ==
    IF domain # m.domain \/ nonce # m.nonce \/ t >= m.expirationTime
    THEN "throw"
    ELSE IF sig = "owner" THEN "success" ELSE "invalid"

\* mutant: the record is not deleted
StoreAfterDelete_Kept(store, address) == store

\* auth.ts:196 and auth.ts:221  nonceStore.delete(address.toLowerCase())
StoreAfterDelete(store, address) == MapDelete(store, toLowerCase(address))

\* the handler from its start to `await siweMessage.verify(...)`
SigninStart(m, sig, host) ==
    /\ last = Idle
    /\ UNCHANGED <<now, nextSweep, nonceSeq, msgs, sessions, claimVars,
                   gateVars, trip,
                   clientVars>>
    /\ LET key == toLowerCase(m.address) IN
       IF DataIncomplete(m, sig) THEN
           /\ last' = Event("signin", "", 0, 400, "Datos incompletos")
           /\ UNCHANGED <<nonceStore, pending, reqSeq, spoiled>>
       ELSE IF ParseFails(m) THEN
           /\ last' = Event("signin", "", 0, 400, "Mensaje invalido")
           /\ UNCHANGED <<nonceStore, pending, reqSeq, spoiled>>
       ELSE IF NonceInvalid(nonceStore, m) THEN
           /\ last' = Event("signin", key, m.nonce, 400, "Nonce invalido")
           /\ spoiled' = IF MapHas(nonceStore, key) THEN spoiled \cup {key} ELSE spoiled
           /\ UNCHANGED <<nonceStore, pending, reqSeq>>
       ELSE IF NonceExpired(nonceStore, m, now) THEN
           /\ nonceStore' = StoreAfterDelete(nonceStore, m.address)
           /\ last' = Event("signin", key, m.nonce, 400, "Mensaje expirado")
           /\ UNCHANGED <<pending, reqSeq, spoiled>>
       ELSE
           /\ nonceSeq + reqSeq < MaxRequests
           /\ reqSeq' = reqSeq + 1
           /\ pending' = pending (+) SetToBag(
                 {[msg |-> m, sig |-> sig, host |-> host,
                   storedNonce |-> nonceStore[key],
                   afterFail |-> key \in spoiled,
                   result |-> SiweVerify(m, sig, VerifyDomain(host),
                                         nonceStore[key].nonce, now)]})
           /\ UNCHANGED <<nonceStore, spoiled, last>>

\* the handler from the settling of verify's promise to its response
SigninResume(p) ==
    /\ last = Idle
    /\ pending' = pending (-) SetToBag({p})
    /\ UNCHANGED <<now, nextSweep, nonceSeq, msgs, reqSeq, claimVars,
                   gateVars, trip,
                   clientVars>>
    /\ LET key == toLowerCase(p.msg.address) IN
       IF p.result = "throw" THEN
           /\ last' = Event("signin", key, p.msg.nonce, 401, "Error de verificacion")
           /\ UNCHANGED <<nonceStore, sessions, spoiled>>
       ELSE IF p.result # "success" THEN
           /\ last' = Event("signin", key, p.msg.nonce, 401, "Firma invalida")
           /\ spoiled' = spoiled \cup {key}
           /\ UNCHANGED <<nonceStore, sessions>>
       ELSE
           /\ nonceStore' = StoreAfterDelete(nonceStore, p.msg.address)
           /\ sessions' = sessions (+) SetToBag({p.msg.nonce})
           /\ last' = [Event("signin", key, p.msg.nonce, 200, "")
                          EXCEPT !.token = JwtSign(key, now)]
           /\ UNCHANGED spoiled

---------------------------------------------------------------------------
(* The answer of POST /auth/signin as a function of the request and of     *)
(* the state it meets (auth.ts:112-252): status and error of the response  *)

SigninResponse(store, m, sig, host, t) ==
    IF DataIncomplete(m, sig) THEN <<400, "Datos incompletos">>
    ELSE IF ParseFails(m) THEN <<400, "Mensaje invalido">>
    ELSE IF NonceInvalid(store, m) THEN <<400, "Nonce invalido">>
    ELSE IF NonceExpired(store, m, t) THEN <<400, "Mensaje expirado">>
    ELSE LET fields == SiweVerify(m, sig, VerifyDomain(host),
                                  store[toLowerCase(m.address)].nonce, t) IN
         IF fields = "throw" THEN <<401, "Error de verificacion">>
         ELSE IF fields # "success" THEN <<401, "Firma invalida">>
         ELSE <<200, "">>

---------------------------------------------------------------------------
(* The sweep and the clock *)

\* mutant: the sweep also removes a record exactly as old as the TTL
SweptStore_AtTtl(store, t) ==
    [k \in {x \in DOMAIN store : ~(t - store[x].timestamp >= expireTime)} |-> store[k]]

\* auth.ts:18-27  the setInterval callback
SweptStore(store, t) ==
    [k \in {x \in DOMAIN store : ~(t - store[x].timestamp > expireTime)} |-> store[k]]

Sweep ==
    /\ last = Idle
    /\ now >= nextSweep
    /\ nonceStore' = SweptStore(nonceStore, now)
    /\ nextSweep' = nextSweep + sweepInterval
    /\ UNCHANGED <<now, nonceSeq, msgs, pending, reqSeq, sessions, spoiled, last,
                   claimVars, gateVars, trip,
                   clientVars>>

\* time passes; a due timer callback runs before the clock moves on
TickAuth ==
    /\ last = Idle
    /\ now < nextSweep
    /\ now + AuthTick <= MaxAuthTicks * AuthTick
    /\ now' = now + AuthTick
    /\ UNCHANGED <<authVars, last, claimVars, gateVars, trip,
                   clientVars>>

\* the response has been written
Deliver ==
    /\ last # Idle
    /\ last' = Idle
    /\ UNCHANGED <<now, authVars, claimVars, gateVars, trip,
                   clientVars>>

NextAuth ==
    \/ \E a \in AddressInputs, h \in MessageHosts : Message(a, h)
    \/ \E m \in msgs \cup {GarbageMsg, MissingMsg}, s \in SigKinds, h \in Hosts :
          SigninStart(m, s, h)
    \/ \E p \in BagToSet(pending) : SigninResume(p)
    \/ Sweep
    \/ TickAuth
    \/ Deliver

\* routes/auth.ts never reads the mode; SpecAuth starts in demo mode
InitAuth == Init /\ demoMode

SpecAuth == InitAuth /\ [][NextAuth]_vars

---------------------------------------------------------------------------
(* POST /faucet/claim: bounds and inputs *)

MaxClaims == 3         \* claim requests that pass authenticateToken
MaxClaimTicks == 2     \* clock steps of ClaimTick in SpecClaim

(* The clock of SpecClaim advances in steps of twelve hours: a token       *)
(* minted at 0 is accepted at 12 h and expired at 24 h, when the limiter   *)
(* window opened at 0 has ended as well.                                   *)
ClaimTick == 12 * 60 * 60 * 1000

\* the addresses of the session tokens: sign-in puts the lowercased address
\* in the token (auth.ts:225)
Users == {"0xab", "0xcd"}

\* the account of config.PRIVATE_KEY, which signs the backend's transactions
Wallet == "0xwallet"

\* req.ip
IPs == {"ip1", "ip2"}

\* the bearer tokens a client can send: tokens minted by a sign-in at the
\* start or one clock step later, no Authorization header, text that is no
\* JWT, a JWT signed with another key, and a JWT signed with JWT_SECRET
\* that has neither address nor expiry
MintTimes == {0, ClaimTick}
MintedTokens(t) ==
    {JwtSign(a, s) : a \in Users, s \in {x \in MintTimes : x <= t}}
GarbageToken == [address |-> "", iat |-> 0, exp |-> 0, key |-> "garbage"]
ForgedToken == [JwtSign("0xcd", 0) EXCEPT !.key = "OTHER_SECRET"]
NoAddressToken == [JwtSign("", 0) EXCEPT !.exp = 0 - 1]
BearerTokens(t) ==
    MintedTokens(t) \cup {NoToken, GarbageToken, ForgedToken, NoAddressToken}

---------------------------------------------------------------------------
(* Error messages.  A message is the sequence of its words, so that        *)
(* String.prototype.includes is decided by the text.                       *)

includes(msg, phrase) ==
    \E i \in 1..(Len(msg) - Len(phrase) + 1) :
        SubSeq(msg, i, i + Len(phrase) - 1) = phrase

NoError == << >>
\* demoService.ts:68, ethereum.ts:131, ethereum.ts:151
ErrYaReclamado == <<"Esta", "direccion", "ya", "ha", "reclamado", "tokens">>
\* ethereum.ts:155
ErrSinFondos == <<"El", "contrato", "no", "tiene", "suficientes", "fondos">>
\* ethereum.ts:58
ErrVerificar == <<"Error", "al", "verificar", "estado", "de", "reclamo">>
\* ethereum.ts:158
ErrAlReclamar(msg) == <<"Error", "al", "reclamar", "tokens:">> \o msg

\* what the provider rejects a transaction with: the contract's revert for
\* an account that has claimed, the sender's lack of funds, a network fault
RevertAlreadyClaimed == <<"execution", "reverted:", "already", "claimed">>
InsufficientFunds == <<"insufficient", "funds", "for", "transfer">>
NetworkError == <<"could", "not", "detect", "network">>

\* faults of a call to the provider, chosen by the environment
ReadFaults == {"none", "network"}
TxFaults == {"none", "funds", "network"}

---------------------------------------------------------------------------
(* authenticateToken  (middleware/auth.ts:10-81) *)

\* mutant: the expiry of the token is not checked
JwtVerify_IgnoreExp(tok, t) ==
    IF tok.key # "JWT_SECRET" THEN "JsonWebTokenError" ELSE "ok"

\* middleware/auth.ts:29  jwt.verify(token, config.JWT_SECRET, callback):
\* the signature is checked first, then exp against the clock in seconds;
\* a token without exp does not expire
JwtVerify(tok, t) ==
    IF tok.key # "JWT_SECRET" THEN "JsonWebTokenError"
    ELSE IF tok.exp >= 0 /\ t \div 1000 >= tok.exp THEN "TokenExpiredError"
    ELSE "ok"

\* the error of the 401 response, or "" when next() is called
AuthenticateToken(tok, t) ==
    IF tok = NoToken THEN "Token de acceso requerido"
    ELSE IF JwtVerify(tok, t) = "TokenExpiredError" THEN "Token expirado"
    ELSE IF JwtVerify(tok, t) = "JsonWebTokenError" THEN "Token invalido"
    ELSE IF tok.address = "" THEN "Token invalido"
    ELSE ""

---------------------------------------------------------------------------
(* claimLimiter  (rateLimiter.ts:213-234): one request per IP per 24 h *)

claimWindowMs == 24 * 60 * 60 * 1000
claimMax == 1

\* the record of the key after this hit: a new window when the key has
\* none or its window has ended, one more hit otherwise
ClaimHit(hits, ip, t) ==
    IF MapHas(hits, ip) /\ t < hits[ip].resetTime
    THEN [hits[ip] EXCEPT !.count = @ + 1]
    ELSE [count |-> 1, resetTime |-> t + claimWindowMs]

\* mutant: the limiter counts and never refuses
ClaimLimited_Never(hits, ip, t) == FALSE

\* rateLimiter.ts:215  max: 1
ClaimLimited(hits, ip, t) == ClaimHit(hits, ip, t).count > claimMax

---------------------------------------------------------------------------
(* The ledgers *)

\* mutant: the demo ledger reports every address as unclaimed
DemoHasClaimed_Never(set, address) == FALSE

\* demoService.ts:28  this.claimedAddresses.has(address.toLowerCase())
DemoHasClaimed(set, address) == toLowerCase(address) \in set

\* mutant: claimTokens does not look at the set
DemoClaimRejects_Never(set, address) == FALSE

\* demoService.ts:67  the check of claimTokens
DemoClaimRejects(set, address) == toLowerCase(address) \in set

\* demoService.ts:72
DemoClaimedAfter(set, address) == set \cup {toLowerCase(address)}

\* the contract's hasAddressClaimed(address); an account is a 20-byte value,
\* the same in every letter-casing of its text
ContractHasClaimed(claimed, account) == toLowerCase(account) \in claimed

\* the contract's claimTokens(), called by `sender`: it takes no argument
\* (wagmi.ts:120-126) and records the sender
ContractClaimedAfter(claimed, sender) == claimed \cup {toLowerCase(sender)}

\* ethereum.ts:47-60 over either ledger
HasAddressClaimed(address) ==
    IF demoMode THEN DemoHasClaimed(claimedAddresses, address)
    ELSE ContractHasClaimed(chainClaimed, address)

\* ethereum.ts:146-159  the catch of claimTokens: the message it throws
RethrowClaim(msg) ==
    IF includes(msg, <<"already", "claimed">>) THEN ErrYaReclamado
    ELSE IF includes(msg, <<"insufficient", "funds">>) THEN ErrSinFondos
    ELSE ErrAlReclamar(msg)

---------------------------------------------------------------------------
(* POST /faucet/claim  (faucet.ts:77-149) *)

ClaimEvent(tok, afterOk, status, error, txHash, message, cause) ==
    [op |-> "claim", addr |-> tok.address, token |-> tok, afterOk |-> afterOk,
     status |-> status, error |-> error, txHash |-> txHash,
     message |-> message, cause |-> cause]

\* faucet.ts:116-147  the catch of the route, for an error with message
\* `msg` whose origin in the ledger was `cause`
ClaimCatch(r, msg, cause) ==
    IF includes(msg, <<"already", "claimed">>)
    THEN ClaimEvent(r.token, r.afterOk, 400, "Ya reclamado", 0, NoError, cause)
    ELSE IF includes(msg, <<"insufficient", "funds">>)
    THEN ClaimEvent(r.token, r.afterOk, 503, "Fondos insuficientes", 0, NoError, cause)
    ELSE ClaimEvent(r.token, r.afterOk, 500, "Error interno del servidor", 0, msg, cause)

\* faucet.ts:96-99
ClaimRefused(r) ==
    ClaimEvent(r.token, r.afterOk, 400, "Ya reclamado", 0, NoError, NoError)

\* faucet.ts:107-114
ClaimSucceeded(r, txHash) ==
    ClaimEvent(r.token, r.afterOk, 200, "", txHash, NoError, NoError)

\* authenticateToken, claimLimiter and the handler up to
\* `await ethereumService.hasAddressClaimed(userAddress)`.  The handler's
\* own `!userAddress` answer (faucet.ts:85-91) cannot happen behind
\* authenticateToken, which lets no empty address through.
ClaimStart(tok, ip) ==
    /\ last = Idle
    /\ UNCHANGED <<now, authVars, demoMode, claimedAddresses, demoUsers,
                   chainClaimed, txSeq, claimsOk, gateVars, trip,
                   clientVars>>
    /\ LET afterOk == tok \in BagToSet(claimsOk) IN
       IF AuthenticateToken(tok, now) # "" THEN
           /\ last' = ClaimEvent(tok, afterOk, 401, AuthenticateToken(tok, now),
                                 0, NoError, NoError)
           /\ UNCHANGED <<claimHits, claimSeq, inflight>>
       ELSE
           /\ claimSeq < MaxClaims
           /\ claimSeq' = claimSeq + 1
           /\ claimHits' = MapSet(claimHits, ip, ClaimHit(claimHits, ip, now))
           /\ IF ClaimLimited(claimHits, ip, now) THEN
                  /\ last' = ClaimEvent(tok, afterOk, 429,
                                        "Limite de reclamo diario excedido",
                                        0, NoError, NoError)
                  /\ UNCHANGED inflight
              ELSE
                  /\ inflight' = inflight (+) SetToBag(
                        {[token |-> tok, user |-> tok.address,
                          afterOk |-> afterOk, pc |-> "hasClaimed"]})
                  /\ UNCHANGED last

\* faucet.ts:94-105  the handler from the settling of hasAddressClaimed to
\* the call of claimTokens and that call's first await
ClaimPrecheck(r, fault) ==
    /\ last = Idle
    /\ r.pc = "hasClaimed"
    /\ demoMode => fault = "none"
    /\ UNCHANGED <<now, authVars, demoMode, claimHits, claimSeq,
                   claimedAddresses, demoUsers, chainClaimed, txSeq, claimsOk,
                   gateVars, trip,
                   clientVars>>
    /\ IF fault # "none" THEN
           /\ inflight' = inflight (-) SetToBag({r})
           /\ last' = ClaimCatch(r, ErrVerificar, NetworkError)
       ELSE IF HasAddressClaimed(r.user) THEN
           /\ inflight' = inflight (-) SetToBag({r})
           /\ last' = ClaimRefused(r)
       ELSE
           /\ inflight' = (inflight (-) SetToBag({r})) (+) SetToBag(
                 {[r EXCEPT !.pc = IF demoMode THEN "claimTokens" ELSE "recheck"]})
           /\ UNCHANGED last

\* demoService.ts:63-80 after its delay, and the handler's answer
DemoClaimTokens(r) ==
    /\ last = Idle
    /\ demoMode
    /\ r.pc = "claimTokens"
    /\ inflight' = inflight (-) SetToBag({r})
    /\ UNCHANGED <<now, authVars, demoMode, claimHits, claimSeq, chainClaimed,
                   gateVars, trip,
                   clientVars>>
    /\ IF DemoClaimRejects(claimedAddresses, r.user) THEN
           /\ last' = ClaimCatch(r, ErrYaReclamado, ErrYaReclamado)
           /\ UNCHANGED <<claimedAddresses, demoUsers, txSeq, claimsOk>>
       ELSE
           /\ claimedAddresses' = DemoClaimedAfter(claimedAddresses, r.user)
           /\ demoUsers' = Append(demoUsers, r.user)
           /\ txSeq' = txSeq + 1
           /\ claimsOk' = claimsOk (+) SetToBag({r.token})
           /\ last' = ClaimSucceeded(r, txSeq + 1)

\* ethereum.ts:127-135  claimTokens from the settling of its own
\* hasAddressClaimed to the sending of the transaction
ChainRecheck(r, fault) ==
    /\ last = Idle
    /\ ~demoMode
    /\ r.pc = "recheck"
    /\ UNCHANGED <<now, authVars, demoMode, claimHits, claimSeq,
                   claimedAddresses, demoUsers, chainClaimed, txSeq, claimsOk,
                   gateVars, trip,
                   clientVars>>
    /\ IF fault # "none" THEN
           /\ inflight' = inflight (-) SetToBag({r})
           /\ last' = ClaimCatch(r, RethrowClaim(ErrVerificar), NetworkError)
       ELSE IF HasAddressClaimed(r.user) THEN
           /\ inflight' = inflight (-) SetToBag({r})
           /\ last' = ClaimCatch(r, RethrowClaim(ErrYaReclamado), ErrYaReclamado)
       ELSE
           /\ inflight' = (inflight (-) SetToBag({r})) (+) SetToBag(
                 {[r EXCEPT !.pc = "tx"]})
           /\ UNCHANGED last

\* ethereum.ts:135-159  this.contract.claimTokens() sent by the backend's
\* wallet, tx.wait(), and the handler's answer
ChainClaimTokens(r, fault) ==
    /\ last = Idle
    /\ ~demoMode
    /\ r.pc = "tx"
    /\ inflight' = inflight (-) SetToBag({r})
    /\ UNCHANGED <<now, authVars, demoMode, claimHits, claimSeq,
                   claimedAddresses, demoUsers, gateVars, trip,
                   clientVars>>
    /\ IF fault = "network" THEN
           /\ last' = ClaimCatch(r, RethrowClaim(NetworkError), NetworkError)
           /\ UNCHANGED <<chainClaimed, txSeq, claimsOk>>
       ELSE IF fault = "funds" THEN
           /\ last' = ClaimCatch(r, RethrowClaim(InsufficientFunds), InsufficientFunds)
           /\ UNCHANGED <<chainClaimed, txSeq, claimsOk>>
       ELSE IF ContractHasClaimed(chainClaimed, Wallet) THEN
           /\ last' = ClaimCatch(r, RethrowClaim(RevertAlreadyClaimed),
                                 RevertAlreadyClaimed)
           /\ UNCHANGED <<chainClaimed, txSeq, claimsOk>>
       ELSE
           /\ chainClaimed' = ContractClaimedAfter(chainClaimed, Wallet)
           /\ txSeq' = txSeq + 1
           /\ claimsOk' = claimsOk (+) SetToBag({r.token})
           /\ last' = ClaimSucceeded(r, txSeq + 1)

\* useFaucetToken.ts:120-143  a user sends claimTokens() to the contract
\* from the user's own wallet
DirectClaim(a) ==
    /\ last = Idle
    /\ ~demoMode
    /\ ~ContractHasClaimed(chainClaimed, a)
    /\ chainClaimed' = ContractClaimedAfter(chainClaimed, a)
    /\ UNCHANGED <<now, last, authVars, demoMode, claimHits, claimSeq, inflight,
                   claimedAddresses, demoUsers, txSeq, claimsOk,
                   gateVars, trip,
                   clientVars>>

TickClaim ==
    /\ last = Idle
    /\ now + ClaimTick <= MaxClaimTicks * ClaimTick
    /\ now' = now + ClaimTick
    /\ UNCHANGED <<last, authVars, claimVars, gateVars, trip,
                   clientVars>>

NextClaim ==
    \/ \E tok \in BearerTokens(now), ip \in IPs : ClaimStart(tok, ip)
    \/ \E r \in BagToSet(inflight), f \in ReadFaults : ClaimPrecheck(r, f)
    \/ \E r \in BagToSet(inflight) : DemoClaimTokens(r)
    \/ \E r \in BagToSet(inflight), f \in ReadFaults : ChainRecheck(r, f)
    \/ \E r \in BagToSet(inflight), f \in TxFaults : ChainClaimTokens(r, f)
    \/ \E a \in Users : DirectClaim(a)
    \/ TickClaim
    \/ Deliver

SpecClaim == Init /\ [][NextClaim]_vars

---------------------------------------------------------------------------
(* Vocabulary of the properties of SpecAuth *)

\* this step wrote a response
Answered == last = Idle /\ last' # Idle
\* this step is a sign-in handler answering before it reaches verify
SigninRefused == Answered /\ last'.op = "signin" /\ pending' = pending
\* this step suspended handler p at verify / resumed handler p
Admitted(p) == CopiesIn(p, pending') > CopiesIn(p, pending)
Resumed(p) == CopiesIn(p, pending') < CopiesIn(p, pending)
KeyOf(m) == toLowerCase(m.address)
MsgOf(n) == CHOOSE m \in msgs : m.nonce = n
\* nonces that a completed sign-in has used
Consumed == BagToSet(sessions)

(* C3 -- single-use sign-in.  A challenge just issued passes every check   *)
(* of the sign-in handler when it comes back signed by the owner; a        *)
(* handler admitted to verify with the owner's signature over an unexpired *)
(* message on the right domain resumes with 200 and a token for the        *)
(* lowercased address; and a sign-in request that arrives with a message   *)
(* whose nonce a completed sign-in has used is answered 400 'Nonce         *)
(* invalido', mints nothing and is never admitted to verify.               *)
C3_FreshChallengePasses ==
    (last.op = "message" /\ last.status = 200) =>
        LET m == MsgOf(last.nonce) IN
        /\ ~NonceInvalid(nonceStore, m)
        /\ ~NonceExpired(nonceStore, m, now)
        /\ SiweVerify(m, "owner", VerifyDomain(m.domain),
                      nonceStore[KeyOf(m)].nonce, now) = "success"

C3_Step ==
    /\ \A p \in BagToSet(pending') :
         Admitted(p) =>
            /\ p.msg.nonce \notin Consumed
            /\ (p.sig = "owner" /\ VerifyDomain(p.host) = p.msg.domain
                  /\ now < p.msg.expirationTime) => p.result = "success"
    /\ \A p \in BagToSet(pending) :
         (Resumed(p) /\ p.result = "success") =>
            /\ last'.status = 200
            /\ last'.token = JwtSign(KeyOf(p.msg), now)
            /\ CopiesIn(p.msg.nonce, sessions') = CopiesIn(p.msg.nonce, sessions) + 1
    /\ (SigninRefused /\ last'.nonce \in Consumed) =>
            /\ last'.status = 400
            /\ last'.error = "Nonce invalido"
            /\ last'.token = NoToken
            /\ sessions' = sessions
            /\ \/ ~MapHas(nonceStore, last'.addr)
               \/ nonceStore[last'.addr].nonce > last'.nonce

C3_SingleUseSignin == [](C3_FreshChallengePasses) /\ [][C3_Step]_vars

C3_Witness ==
    /\ last.op = "signin" /\ last.error = "Nonce invalido"
    /\ last.nonce \in Consumed

(* C4 -- atomic nonce consumption: no challenge (nonce) leads to more than *)
(* one successful sign-in.                                                 *)
C4_OneSigninPerNonce ==
    \A n \in BagToSet(sessions) : CopiesIn(n, sessions) <= 1

(* C6 -- last challenge wins.  A sign-in request that arrives with a       *)
(* message whose nonce differs from the one stored for its address is      *)
(* answered 400 'Nonce invalido', mints no token and leaves the store (so  *)
(* the newer challenge) as it was; no such request is admitted to verify.  *)
C6_Step ==
    /\ (SigninRefused /\ last'.nonce # 0
          /\ MapHas(nonceStore, last'.addr)
          /\ nonceStore[last'.addr].nonce # last'.nonce) =>
            /\ last'.status = 400
            /\ last'.error = "Nonce invalido"
            /\ last'.token = NoToken
            /\ nonceStore' = nonceStore
            /\ sessions' = sessions
    /\ \A p \in BagToSet(pending') :
         Admitted(p) =>
            /\ MapHas(nonceStore, KeyOf(p.msg))
            /\ nonceStore[KeyOf(p.msg)].nonce = p.msg.nonce

C6_LastChallengeWins == [][C6_Step]_vars

C6_Witness ==
    /\ last.op = "signin" /\ last.error = "Nonce invalido"
    /\ last.nonce \notin Consumed
    /\ MapHas(nonceStore, last.addr)
    /\ nonceStore[last.addr].nonce > last.nonce
    /\ ~NonceInvalid(nonceStore, MsgOf(nonceStore[last.addr].nonce))

(* C7 as claimed -- a sign-in request that arrives more than 10 minutes    *)
(* after its challenge was stored is answered 400 'Mensaje expirado' and   *)
(* leaves no nonce record for the address.                                 *)
TooOld(n) == now - MsgOf(n).issuedAt > expireTime

C7_Claimed_Step ==
    (SigninRefused /\ last'.nonce # 0 /\ TooOld(last'.nonce)) =>
        /\ last'.error = "Mensaje expirado"
        /\ ~MapHas(nonceStore', last'.addr)

C7_Claimed == [][C7_Claimed_Step]_vars

(* C7 as amended -- a sign-in request that arrives more than 10 minutes    *)
(* after its challenge was stored is never admitted to verify and mints    *)
(* no token.  If the store still holds that challenge's record the answer  *)
(* is 400 'Mensaje expirado' and the record is removed; if the record is   *)
(* gone (swept, consumed) or was replaced by a newer challenge the answer  *)
(* is 400 'Nonce invalido' and the store is left as it was.                *)
C7_Step ==
    /\ \A p \in BagToSet(pending') : Admitted(p) => ~TooOld(p.msg.nonce)
    /\ (SigninRefused /\ last'.nonce # 0 /\ TooOld(last'.nonce)) =>
         /\ last'.status = 400
         /\ last'.token = NoToken
         /\ sessions' = sessions
         /\ IF MapHas(nonceStore, last'.addr)
               /\ nonceStore[last'.addr].nonce = last'.nonce
            THEN /\ last'.error = "Mensaje expirado"
                 /\ ~MapHas(nonceStore', last'.addr)
            ELSE /\ last'.error = "Nonce invalido"
                 /\ nonceStore' = nonceStore

C7_ExpiredChallenge == [][C7_Step]_vars

C7_Witness ==
    /\ last.op = "signin" /\ last.error = "Mensaje expirado"
    /\ TooOld(last.nonce)
    /\ ~MapHas(nonceStore, last.addr)

(* C9 as claimed -- after a sign-in attempt for an address failed on the   *)
(* signature or on the nonce comparison, no later attempt for the address  *)
(* succeeds until a new challenge has been issued for it.                  *)
C9_Claimed_Step ==
    \A p \in BagToSet(pending) :
        (Resumed(p) /\ last'.status = 200) => ~p.afterFail

C9_Step ==
    /\ (Answered /\ last'.op = "signin"
          /\ last'.error \in {"Nonce invalido", "Firma invalida",
                              "Error de verificacion"}) =>
            /\ nonceStore' = nonceStore
            /\ sessions' = sessions
            /\ last'.token = NoToken
    /\ \A p \in BagToSet(pending) :
         Resumed(p) =>
            (last'.status = 200 <=>
               /\ p.sig = "owner"
               /\ p.storedNonce.nonce = p.msg.nonce
               /\ p.result = "success")

---------------------------------------------------------------------------
(* Vocabulary of the properties of SpecClaim *)

\* this step suspended claim handler r at its first ledger call
ClaimAdmitted(r) ==
    r.pc = "hasClaimed" /\ CopiesIn(r, inflight') > CopiesIn(r, inflight)
\* this step resumed claim handler r
ClaimResumed(r) == CopiesIn(r, inflight') < CopiesIn(r, inflight)
\* this step is a claim request answered on arrival
ClaimTurnedAway == Answered /\ last'.op = "claim" /\ inflight' = inflight
\* a session token that was signed by the server for an address and is
\* less than 24 hours old at time t
SessionValid(tok, t) ==
    /\ tok.key = "JWT_SECRET"
    /\ tok.address # ""
    /\ t \div 1000 < tok.iat + 24 * 60 * 60
\* the addresses the ledgers can hold
LedgerAddresses == Users \cup {Wallet, "0xAb", "0x8bH"}
\* this step is a write of the backend to its ledger
LedgerWritten ==
    \/ claimedAddresses' # claimedAddresses
    \/ demoUsers' # demoUsers
    \/ Wallet \in chainClaimed' \ chainClaimed

(* C1 -- at-most-once claim.  No two successful claim responses are for    *)
(* the same address, whatever tokens the requests carried and however the  *)
(* handlers interleave; a claim is answered 200 exactly when it gets a     *)
(* transaction hash; and the ledger's claimed flag of an address, once     *)
(* true, stays true.                                                       *)
C1_AtMostOnce ==
    \A t1, t2 \in BagToSet(claimsOk) :
        t1.address = t2.address => (t1 = t2 /\ CopiesIn(t1, claimsOk) = 1)

C1_Step ==
    /\ \A a \in LedgerAddresses : HasAddressClaimed(a) => HasAddressClaimed(a)'
    /\ (Answered /\ last'.op = "claim") =>
          /\ last'.status = 200 <=> last'.txHash # 0
          /\ last'.status = 200 <=> claimsOk' = claimsOk (+) SetToBag({last'.token})
          /\ last'.status # 200 => claimsOk' = claimsOk

C1_AtMostOnceClaim == [](C1_AtMostOnce) /\ [][C1_Step]_vars

C1_Witness ==
    /\ last.op = "claim" /\ last.status = 500 /\ ~last.afterOk
    /\ last.cause = ErrYaReclamado
    /\ \E t \in BagToSet(claimsOk) : t.address = last.addr

(* C2 as claimed, on the demo ledger -- a claim handler that passed the    *)
(* pre-check and finds, when its claimTokens runs, that a concurrent       *)
(* request has claimed for the address, answers 400 'Ya reclamado'.        *)
C2_Step ==
    \A r \in BagToSet(inflight) :
        (ClaimResumed(r) /\ r.pc = "claimTokens"
            /\ DemoHasClaimed(claimedAddresses, r.user)) =>
                /\ last'.status = 400
                /\ last'.error = "Ya reclamado"

C2_RaceLoserAlreadyClaimed == [][C2_Step]_vars

(* C5 as claimed -- a claim request that arrives with a token after a      *)
(* request with the same token was answered with success, and that is let  *)
(* through by authenticateToken (the token is still accepted) and by       *)
(* claimLimiter (it comes from another IP, or in a later window), and     *)
(* whose ledger calls meet no network fault and no lack of funds, is       *)
(* answered 400 'Ya reclamado'.                                            *)
C5_SecondClaimAlreadyClaimed ==
    (last.op = "claim" /\ last.afterOk /\ last.status \notin {401, 429}
        /\ last.cause \notin {NetworkError, InsufficientFunds}) =>
        /\ last.status = 400
        /\ last.error = "Ya reclamado"

(* C8 -- no ledger claim without a valid session.  A claim handler is      *)
(* suspended at a ledger call only for a request whose token was signed by *)
(* the server, carries an address and is unexpired on arrival, and it      *)
(* works for the address of that token from then on; a request whose token *)
(* is missing, malformed, forged, expired or without address is answered   *)
(* 401 on arrival and changes neither the ledgers nor the limiter nor the  *)
(* set of suspended handlers; and the backend writes to its ledger only    *)
(* in a step of a suspended handler, for that handler's address.           *)
C8_Step ==
    /\ \A r \in BagToSet(inflight') :
          /\ r.user = r.token.address
          /\ ClaimAdmitted(r) => SessionValid(r.token, now)
    /\ (ClaimTurnedAway /\ ~SessionValid(last'.token, now)) =>
          /\ last'.status = 401
          /\ last'.txHash = 0
          /\ UNCHANGED <<claimedAddresses, demoUsers, chainClaimed, claimHits,
                         claimsOk>>
    /\ LedgerWritten =>
          \E r \in BagToSet(inflight) :
             /\ ClaimResumed(r)
             /\ r.pc \in {"claimTokens", "tx"}
             /\ r.token.key = "JWT_SECRET"
             /\ demoMode => claimedAddresses' = claimedAddresses \cup {r.token.address}

C8_NoClaimWithoutSession == [][C8_Step]_vars

C8_Witness ==
    /\ last.op = "claim" /\ last.status = 401
    /\ last.error = "Token expirado"
    /\ last.token \in BagToSet(claimsOk)

(* C10 as claimed -- a claim whose ledger call failed for insufficient     *)
(* funds is answered 503 'Fondos insuficientes'.                           *)
C10_FundsAnswered503 ==
    (last.op = "claim" /\ includes(last.cause, <<"insufficient", "funds">>)) =>
        /\ last.status = 503
        /\ last.error = "Fondos insuficientes"

---------------------------------------------------------------------------
(* C11 -- one record per address.  Every key of the nonce store is a       *)
(* lowercased address, so the letter casings of one address share one      *)
(* record; and a challenge issued for an address leaves under that key     *)
(* exactly the new nonce, which differs from the one it replaces, with the *)
(* time of issuance, and leaves the records of the other keys as they      *)
(* were.                                                                   *)
C11_KeysLowercased ==
    \A k \in DOMAIN nonceStore :
        /\ toLowerCase(k) = k
        /\ IsAddressFormat(k)

C11_Step ==
    (Answered /\ last'.op = "message" /\ last'.status = 200) =>
        /\ DOMAIN nonceStore' = DOMAIN nonceStore \cup {last'.addr}
        /\ nonceStore'[last'.addr] = [nonce |-> last'.nonce, timestamp |-> now]
        /\ MapHas(nonceStore, last'.addr) =>
              nonceStore'[last'.addr].nonce # nonceStore[last'.addr].nonce
        /\ \A k \in DOMAIN nonceStore \ {last'.addr} :
              nonceStore'[k] = nonceStore[k]

C11_OneRecordPerAddress == [](C11_KeysLowercased) /\ [][C11_Step]_vars

C11_Witness ==
    /\ last.op = "message" /\ last.status = 200
    /\ \E m1, m2 \in msgs :
          /\ m1.address = "0xAb" /\ m2.address = "0xab"
          /\ m1.nonce < m2.nonce
          /\ m2.nonce = last.nonce
    /\ DOMAIN nonceStore = {"0xab"}

(* C12 -- a challenge request whose address is missing or is not 0x        *)
(* followed by 40 hex digits is answered 400, draws no nonce, hands out no *)
(* message and leaves the nonce store as it was.                           *)
C12_Step ==
    (Answered /\ last'.op = "message"
        /\ last'.addr \notin {"0xab", "0xcd"}) =>
            /\ last'.status = 400
            /\ last'.error \in {"Direccion requerida", "Direccion invalida"}
            /\ last'.error = "Direccion requerida" <=> last'.addr = ""
            /\ UNCHANGED <<nonceStore, nonceSeq, msgs>>

C12_BadAddressNoEffect == [][C12_Step]_vars

C12_Witness ==
    /\ last.op = "message" /\ last.status = 400
    /\ last.addr = "0x123"
    /\ DOMAIN nonceStore # {}

(* C13 -- rejection without partial effects.  A claim handler that         *)
(* resumes from its first hasAddressClaimed when the ledger holds the      *)
(* claimed mark of its address answers at once, 400 'Ya reclamado' (or     *)
(* 500 when the read itself failed), never goes on to claimTokens, and     *)
(* leaves the claimed sets and the user list as they were.                 *)
MarkedClaimed(a) ==
    IF demoMode THEN a \in claimedAddresses ELSE a \in chainClaimed

C13_Step ==
    \A r \in BagToSet(inflight) :
        (ClaimResumed(r) /\ r.pc = "hasClaimed" /\ MarkedClaimed(r.user)) =>
            /\ Answered
            /\ last'.op = "claim" /\ last'.token = r.token
            /\ \/ /\ last'.status = 400
                  /\ last'.error = "Ya reclamado"
                  /\ last'.cause = NoError
               \/ /\ last'.status = 500
                  /\ last'.cause = NetworkError
            /\ last'.txHash = 0
            /\ inflight' = inflight (-) SetToBag({r})
            /\ UNCHANGED <<claimedAddresses, demoUsers, chainClaimed, txSeq,
                           claimsOk>>

C13_AlreadyClaimedNoEffect == [][C13_Step]_vars

C13_Witness ==
    /\ demoMode
    /\ last.op = "claim" /\ last.status = 400 /\ last.error = "Ya reclamado"
    /\ last.addr \in claimedAddresses
    /\ last.afterOk

(* C14 as claimed -- the failure kinds of sign-in are told apart by the    *)
(* response: of two sign-in requests that meet the same state and fail     *)
(* for different kinds (malformed message, no nonce record, a stored       *)
(* nonce that differs, an expired record, a signature not by the owner),   *)
(* the two responses differ in status or error.                            *)
SigninRequests ==
    {[msg |-> m, sig |-> s, host |-> h] :
        m \in msgs \cup {GarbageMsg}, s \in {"owner", "other"}, h \in Hosts}

FailureKind(q) ==
    IF q.msg.kind # "siwe" THEN "MalformedMessage"
    ELSE IF ~MapHas(nonceStore, KeyOf(q.msg)) THEN "UnknownOrConsumedNonce"
    ELSE IF nonceStore[KeyOf(q.msg)].nonce # q.msg.nonce THEN "NonceMismatch"
    ELSE IF now - nonceStore[KeyOf(q.msg)].timestamp > expireTime THEN "ChallengeExpired"
    ELSE IF q.sig # "owner" THEN "InvalidSignature"
    ELSE "none"

C14_DistinctFailureModes ==
    \A q1, q2 \in SigninRequests :
        (FailureKind(q1) # "none" /\ FailureKind(q2) # "none"
            /\ FailureKind(q1) # FailureKind(q2)) =>
                SigninResponse(nonceStore, q1.msg, q1.sig, q1.host, now)
                    # SigninResponse(nonceStore, q2.msg, q2.sig, q2.host, now)

(* C15 -- a wrong signature.  A sign-in request that passes the parse,     *)
(* nonce and expiry checks with a signature not made by the key of the     *)
(* message's address is suspended at verify without touching the store     *)
(* and resumes with 401 ('Firma invalida', or 'Error de verificacion'      *)
(* when verify rejects), without a token, leaving the nonce store and the  *)
(* sessions as they were.                                                  *)
C15_Step ==
    /\ \A p \in BagToSet(pending') :
          Admitted(p) => UNCHANGED <<nonceStore, sessions>>
    /\ \A p \in BagToSet(pending) :
          (Resumed(p) /\ p.sig # "owner") =>
              /\ last'.op = "signin"
              /\ last'.status = 401
              /\ last'.error \in {"Firma invalida", "Error de verificacion"}
              /\ last'.token = NoToken
              /\ UNCHANGED <<nonceStore, sessions>>

C15_InvalidSignature == [][C15_Step]_vars

C15_Witness ==
    /\ last.op = "signin" /\ last.status = 401
    /\ last.error = "Firma invalida"
    /\ MapHas(nonceStore, last.addr)
    /\ nonceStore[last.addr].nonce = last.nonce
    /\ sessions = EmptyBag


---------------------------------------------------------------------------
(* The limiters mounted in front of the routes.  generalLimiter is         *)
(* app.use()d before every route (App.tsx:127); faucetLimiter is in the    *)
(* chain of GET /faucet/status/:address (faucet.ts:20).                    *)

\* rateLimiter.ts:129-153 with the defaults of config (900000 ms, 100)
generalWindowMs == 15 * 60 * 1000
generalMax == 100

GeneralHit(hits, ip, t) ==
    IF MapHas(hits, ip) /\ t < hits[ip].resetTime
    THEN [hits[ip] EXCEPT !.count = @ + 1]
    ELSE [count |-> 1, resetTime |-> t + generalWindowMs]

GeneralLimited(hits, ip, t) == GeneralHit(hits, ip, t).count > generalMax

\* rateLimiter.ts:186-207
faucetWindowMs == 60 * 60 * 1000
faucetMax == 5

FaucetHit(hits, ip, t) ==
    IF MapHas(hits, ip) /\ t < hits[ip].resetTime
    THEN [hits[ip] EXCEPT !.count = @ + 1]
    ELSE [count |-> 1, resetTime |-> t + faucetWindowMs]

FaucetLimited(hits, ip, t) == FaucetHit(hits, ip, t).count > faucetMax

---------------------------------------------------------------------------
(* GET /faucet/status/:address  (faucet.ts:18-70) *)

\* requests through the gate in one behaviour
MaxStatus == 3

\* what a client can put in the place of :address (a route parameter is
\* never empty)
StatusParams == AddressInputs \ {""}

\* ethereum.ts:167-176  EthereumService.isValidAddress
isValidAddress(address) == IsAddressFormat(address)

\* mutant: the route lets every authenticated user read every address
StatusDenied_Never(tok, address) == FALSE

\* faucet.ts:36  req.user?.address !== address.toLowerCase()
StatusDenied(tok, address) == tok.address # toLowerCase(address)

\* res.status(...).json(...): `read` tells whether the body is the
\* ledger's data, `hasClaimed` is that field of the data
StatusEvent(tok, address, status, error, read, hasClaimed) ==
    [op |-> "status", addr |-> address, token |-> tok, status |-> status,
     error |-> error, read |-> read, hasClaimed |-> hasClaimed]

\* generalLimiter, authenticateToken, faucetLimiter and the handler up to
\* `await Promise.all([...])`, whose four ledger calls are started here
StatusStart(tok, ip, address) ==
    /\ last = Idle
    /\ gateSeq < MaxStatus
    /\ gateSeq' = gateSeq + 1
    /\ generalHits' = MapSet(generalHits, ip, GeneralHit(generalHits, ip, now))
    /\ UNCHANGED <<now, authVars, demoMode, claimHits, claimSeq,
                   claimedAddresses, demoUsers, chainClaimed, txSeq, claimsOk,
                   authSeen, trip,
                   clientVars>>
    /\ IF GeneralLimited(generalHits, ip, now) THEN
           /\ last' = StatusEvent(tok, address, 429, "Demasiadas solicitudes",
                                  FALSE, FALSE)
           /\ UNCHANGED <<faucetHits, inflight>>
       ELSE IF AuthenticateToken(tok, now) # "" THEN
           /\ last' = StatusEvent(tok, address, 401, AuthenticateToken(tok, now),
                                  FALSE, FALSE)
           /\ UNCHANGED <<faucetHits, inflight>>
       ELSE
           /\ faucetHits' = MapSet(faucetHits, ip, FaucetHit(faucetHits, ip, now))
           /\ IF FaucetLimited(faucetHits, ip, now) THEN
                  /\ last' = StatusEvent(tok, address, 429,
                                         "Demasiadas operaciones del faucet",
                                         FALSE, FALSE)
                  /\ UNCHANGED inflight
              ELSE IF ~isValidAddress(address) THEN
                  /\ last' = StatusEvent(tok, address, 400, "Direccion invalida",
                                         FALSE, FALSE)
                  /\ UNCHANGED inflight
              ELSE IF StatusDenied(tok, address) THEN
                  /\ last' = StatusEvent(tok, address, 403, "Acceso denegado",
                                         FALSE, FALSE)
                  /\ UNCHANGED inflight
              ELSE
                  /\ inflight' = inflight (+) SetToBag(
                        {[token |-> tok, address |-> address, pc |-> "status"]})
                  /\ UNCHANGED last

\* faucet.ts:47-70  the reads settle: the data, or the catch of the route
\* when the provider fails (the demo ledger never does)
StatusDone(r, fault) ==
    /\ last = Idle
    /\ r.pc = "status"
    /\ demoMode => fault = "none"
    /\ inflight' = inflight (-) SetToBag({r})
    /\ last' = IF fault = "none"
               THEN StatusEvent(r.token, r.address, 200, "", TRUE,
                                HasAddressClaimed(r.address))
               ELSE StatusEvent(r.token, r.address, 500,
                                "Error interno del servidor", FALSE, FALSE)
    /\ UNCHANGED <<now, authVars, demoMode, claimHits, claimSeq,
                   claimedAddresses, demoUsers, chainClaimed, txSeq, claimsOk,
                   gateVars, trip,
                   clientVars>>

NextStatus ==
    \/ \E tok \in BearerTokens(now), ip \in IPs, a \in StatusParams :
          StatusStart(tok, ip, a)
    \/ \E r \in BagToSet(inflight), f \in ReadFaults : StatusDone(r, f)
    \/ \E a \in Users : DirectClaim(a)
    \/ TickClaim
    \/ Deliver

SpecStatus == Init /\ [][NextStatus]_vars

---------------------------------------------------------------------------
(* Claims about GET /faucet/status/:address, under SpecStatus *)

\* a status request arrives in this step
StatusArrives == gateSeq' = gateSeq + 1

\* the ledger calls of a status request are started in this step
StatusReads(r) == CopiesIn(r, inflight') > CopiesIn(r, inflight)

\* C16: GET /faucet/status/:address returns ledger data only when the
\* bearer token's address equals the lowercased :address; a request with
\* any other valid token starts no ledger read and, its :address being
\* well-formed and the limiters letting it through, is answered 403.
C16_Step ==
    /\ (last' # last /\ last'.op = "status" /\ last'.read) =>
           /\ last'.status = 200
           /\ last'.token.key = "JWT_SECRET"
           /\ last'.token.address = toLowerCase(last'.addr)
    /\ \A r \in BagToSet(inflight') :
           StatusReads(r) =>
               /\ AuthenticateToken(r.token, now) = ""
               /\ r.token.address = toLowerCase(r.address)
    /\ (/\ StatusArrives
        /\ last'.op = "status"
        /\ AuthenticateToken(last'.token, now) = ""
        /\ last'.token.address # toLowerCase(last'.addr)) =>
           /\ inflight' = inflight
           /\ ~last'.read
           /\ (isValidAddress(last'.addr) /\ last'.status # 429) =>
                  (last'.status = 403 /\ last'.error = "Acceso denegado")

C16_StatusOwnAddressOnly == [][C16_Step]_vars

\* a user with a valid session has asked for another address and been
\* answered 403
C16_Witness ==
    /\ last.op = "status"
    /\ last.status = 403
    /\ last.token.address = "0xab"
    /\ last.addr = "0xCd"
    /\ AuthenticateToken(last.token, now) = ""

---------------------------------------------------------------------------
(* The life of a session token: sign-ins and challenges over days.         *)
(* SpecSession runs the routes of auth.ts with a clock that moves in       *)
(* steps of twelve hours.                                                  *)

MaxSessionTicks == 3   \* clock steps of ClaimTick in SpecSession

\* twelve hours pass.  The setInterval callback (auth.ts:18-27) runs on
\* each of its due times in between: what a run removes, the last run
\* removes too, so the store is left as the last run leaves it.  No
\* signature verification stays suspended that long.
HalfDay ==
    /\ last = Idle
    /\ pending = EmptyBag
    /\ now + ClaimTick <= MaxSessionTicks * ClaimTick
    /\ now' = now + ClaimTick
    /\ LET runs == (now + ClaimTick - nextSweep) \div sweepInterval
           lastRun == nextSweep + runs * sweepInterval
       IN  /\ nonceStore' = SweptStore(nonceStore, lastRun)
           /\ nextSweep' = lastRun + sweepInterval
    /\ UNCHANGED <<nonceSeq, msgs, pending, reqSeq, sessions, spoiled, last,
                   claimVars, gateVars, trip,
                   clientVars>>

NextSession ==
    \/ \E a \in AddressInputs, h \in MessageHosts : Message(a, h)
    \/ \E m \in msgs \cup {GarbageMsg, MissingMsg}, s \in SigKinds, h \in Hosts :
          SigninStart(m, s, h)
    \/ \E p \in BagToSet(pending) : SigninResume(p)
    \/ HalfDay
    \/ Deliver

SpecSession == InitAuth /\ [][NextSession]_vars

---------------------------------------------------------------------------
(* Claims about the session token, under SpecSession *)

sessionMs == 24 * 60 * 60 * 1000

\* the challenges whose sign-in succeeded.  In SpecSession a sign-in
\* succeeds at the clock value its challenge was issued at (the clock's
\* step is longer than the challenge lives), so the challenge's issuedAt
\* is the time its token was minted: C17_Step checks this on each mint.
SignedIn == {m \in msgs : m.nonce \in BagToSet(sessions)}
TokenOf(m) == JwtSign(toLowerCase(m.address), m.issuedAt)

\* the step is a successful sign-in
Mints == last' # last /\ last'.op = "signin" /\ last'.status = 200

\* C17: a session token minted at time t by a successful sign-in carries
\* the lowercased address; whatever has happened since (new challenges, new
\* sign-ins for the same address), authenticateToken accepts it at every
\* time before t + 24h and rejects it with 401 'Token expirado' at every
\* time after.
C17_Lifetime ==
    \A m \in SignedIn :
        /\ TokenOf(m).address = toLowerCase(m.address)
        /\ now < m.issuedAt + sessionMs => AuthenticateToken(TokenOf(m), now) = ""
        /\ now > m.issuedAt + sessionMs =>
               AuthenticateToken(TokenOf(m), now) = "Token expirado"

C17_Step ==
    Mints =>
        /\ \E m \in SignedIn' :
               /\ m.nonce = last'.nonce
               /\ m.issuedAt = now
               /\ last'.token = TokenOf(m)
        /\ last'.token.address = last'.addr
        /\ last'.addr = toLowerCase(last'.addr)

C17_SessionLifetime == [](C17_Lifetime) /\ [][C17_Step]_vars

\* a token minted at the start is past its 24 hours and refused; a new
\* challenge for the same address was issued in between
C17_Witness ==
    \E m1 \in SignedIn, m2 \in msgs :
        /\ toLowerCase(m1.address) = toLowerCase(m2.address)
        /\ m1.issuedAt = 0
        /\ m2.issuedAt = ClaimTick
        /\ now > m1.issuedAt + sessionMs
        /\ AuthenticateToken(TokenOf(m1), now) = "Token expirado"

---------------------------------------------------------------------------
(* The sweep over a longer stretch of time: SpecTimer issues challenges    *)
(* and runs the timer, with a clock that moves in steps of five minutes.   *)
(* No sign-in ever looks a record up.                                      *)

SweepTick == 5 * 60 * 1000
MaxSweepTicks == 7     \* clock steps of SweepTick in SpecTimer

\* time passes; a due timer callback runs before the clock moves on
TickTimer ==
    /\ last = Idle
    /\ now < nextSweep
    /\ now + SweepTick <= MaxSweepTicks * SweepTick
    /\ now' = now + SweepTick
    /\ UNCHANGED <<authVars, last, claimVars, gateVars, trip,
                   clientVars>>

NextTimer ==
    \/ \E a \in AddressInputs, h \in MessageHosts : Message(a, h)
    \/ Sweep
    \/ TickTimer
    \/ Deliver

SpecTimer == InitAuth /\ [][NextTimer]_vars

---------------------------------------------------------------------------
(* Claims about the sweep, under SpecTimer *)

\* the step is a run of the setInterval callback
Sweeps == nextSweep' # nextSweep

RecordAge(store, k, t) == t - store[k].timestamp

\* C18: immediately after each run of the sweep the store holds no record
\* older than the 10-minute TTL, and every record not older than the TTL
\* is left as it was; the sweep runs on its interval whether or not a
\* sign-in ever looked a record up, so no record is in the store longer
\* than the TTL plus one sweep interval.
C18_Step ==
    Sweeps =>
        /\ \A k \in DOMAIN nonceStore' :
               ~(RecordAge(nonceStore', k, now) > expireTime)
        /\ \A k \in DOMAIN nonceStore :
               ~(RecordAge(nonceStore, k, now) > expireTime) =>
                   k \in DOMAIN nonceStore' /\ nonceStore'[k] = nonceStore[k]
        /\ DOMAIN nonceStore' \subseteq DOMAIN nonceStore

C18_Bounded ==
    \A k \in DOMAIN nonceStore :
        RecordAge(nonceStore, k, now) <= expireTime + sweepInterval

C18_SweepRemovesOld == [](C18_Bounded) /\ [][C18_Step]_vars

\* a sweep has just run 20 minutes in; a record no sign-in ever looked up
\* is gone and a record exactly 10 minutes old is still there
C18_Witness ==
    /\ now = 4 * SweepTick
    /\ nextSweep = now + sweepInterval
    /\ reqSeq = 0
    /\ nonceSeq = 2
    /\ Cardinality(DOMAIN nonceStore) = 1
    /\ \E k \in DOMAIN nonceStore : RecordAge(nonceStore, k, now) = expireTime

---------------------------------------------------------------------------
(* The gate in front of POST /auth/message.  App.tsx:127 mounts            *)
(* generalLimiter before every route and App.tsx:166 mounts the router of  *)
(* auth.ts under /auth; the route itself (auth.ts:33) names no middleware. *)
(* authLimiter (rateLimiter.ts:159-180) is imported by auth.ts:5 and       *)
(* passed to no route.                                                     *)

\* rateLimiter.ts:160-161
authWindowMs == 15 * 60 * 1000
authMax == 10

MaxGate == 11          \* requests to /auth/message in SpecGate

AuthSeen(seen, ip) == IF MapHas(seen, ip) THEN seen[ip] ELSE 0

\* generalLimiter, then the handler of auth.ts:33-106
GateMessage(ip, address, host) ==
    /\ last = Idle
    /\ gateSeq < MaxGate
    /\ gateSeq' = gateSeq + 1
    /\ authSeen' = MapSet(authSeen, ip, AuthSeen(authSeen, ip) + 1)
    /\ generalHits' = MapSet(generalHits, ip, GeneralHit(generalHits, ip, now))
    /\ UNCHANGED <<now, nextSweep, pending, reqSeq, sessions, claimVars,
                   faucetHits, trip,
                   clientVars>>
    /\ IF GeneralLimited(generalHits, ip, now) THEN
           /\ last' = Event("message", address, 0, 429, "Demasiadas solicitudes")
           /\ UNCHANGED <<nonceStore, nonceSeq, msgs, spoiled>>
       ELSE IF address = "" THEN
           /\ last' = Event("message", address, 0, 400, "Direccion requerida")
           /\ UNCHANGED <<nonceStore, nonceSeq, msgs, spoiled>>
       ELSE IF ~IsAddressFormat(address) THEN
           /\ last' = Event("message", address, 0, 400, "Direccion invalida")
           /\ UNCHANGED <<nonceStore, nonceSeq, msgs, spoiled>>
       ELSE
           /\ nonceSeq + reqSeq < MaxRequests
           /\ nonceSeq' = nonceSeq + 1
           /\ msgs' = msgs \cup {BuildMessage(address, host, generateNonce, now)}
           /\ nonceStore' = StoreAfterMessage(nonceStore, address, generateNonce, now)
           /\ spoiled' = spoiled \ {toLowerCase(address)}
           /\ last' = Event("message", toLowerCase(address), generateNonce, 200, "")

NextGate ==
    \/ \E ip \in IPs, a \in AddressInputs, h \in MessageHosts :
          GateMessage(ip, a, h)
    \/ Deliver

SpecGate == InitAuth /\ [][NextGate]_vars

---------------------------------------------------------------------------
(* Claims about the limiters, under SpecGate.  The clock stands still, so  *)
(* all requests of a behaviour fall within any window.                     *)

\* C19: message issuance is gated by a per-IP limiter of its own: once an
\* IP has sent more than 10 authentication requests within 15 minutes,
\* its requests are rejected with 429 before they reach the auth handler.
C19_Step ==
    \A ip \in IPs :
        (AuthSeen(authSeen', ip) # AuthSeen(authSeen, ip)
         /\ AuthSeen(authSeen', ip) > authMax) => last'.status = 429

C19_AuthRequestsLimited == [][C19_Step]_vars

---------------------------------------------------------------------------
(* The text of a challenge.  A text is the sequence of its lines and a     *)
(* line the sequence of its tokens, a space being a token of its own, so   *)
(* that trimming and parsing are decided by the text.                      *)

Sp == " "

\* auth.ts:62-63
Statement == "Inicia sesion en Faucet DApp con tu wallet Ethereum."
FrontendUrl == "http://localhost:5174"
ChainId == 11155111

\* Date.prototype.toISOString: the text of a time in milliseconds
toISOString(t) ==
    CASE t = 0 -> "1970-01-01T00:00:00.000Z"
      [] t = 600000 -> "1970-01-01T00:10:00.000Z"
      [] t = 1200000 -> "1970-01-01T00:20:00.000Z"
      [] t = 1800000 -> "1970-01-01T00:30:00.000Z"
      [] t = 2400000 -> "1970-01-01T00:40:00.000Z"
      [] OTHER -> "?"

\* the nonces generateNonce draws, as the texts they are
NonceText(n) ==
    CASE n = 1 -> "nonce0001"
      [] n = 2 -> "nonce0002"
      [] n = 3 -> "nonce0003"
      [] n = 4 -> "nonce0004"
      [] OTHER -> "?"

\* the decimal text of a number and Number.parseInt of a text (-1 for NaN)
DecimalText(n) ==
    CASE n = 11155111 -> "11155111"
      [] n = 1 -> "1"
      [] OTHER -> "?"
parseInt(s) ==
    CASE s = "11155111" -> 11155111
      [] s = "1" -> 1
      [] OTHER -> 0 - 1

\* auth.ts:60-77  the fields given to `new SiweMessage({...})`
SiweFields(address, host, nonce, t) ==
    [domain |-> MessageDomain(host), address |-> address,
     statement |-> Statement, uri |-> FrontendUrl, version |-> "1",
     chainId |-> ChainId, nonce |-> NonceText(nonce),
     issuedAt |-> toISOString(t),
     expirationTime |-> toISOString(t + 10 * 60 * 1000)]

\* auth.ts:79  siweMessage.prepareMessage(): the EIP-4361 text
WantsPhrase == "wants you to sign in with your Ethereum account:"
prepareMessage(f) ==
    << <<f.domain, Sp, WantsPhrase>>,
       <<f.address>>,
       <<>>,
       <<f.statement>>,
       <<>>,
       <<"URI:", Sp, f.uri>>,
       <<"Version:", Sp, f.version>>,
       <<"Chain ID:", Sp, DecimalText(f.chainId)>>,
       <<"Nonce:", Sp, f.nonce>>,
       <<"Issued At:", Sp, f.issuedAt>>,
       <<"Expiration Time:", Sp, f.expirationTime>> >>

\* mutant: the blanks at the end of a line are kept
trimEnd_Kept(line) == line

\* String.prototype.trimEnd and trimStart on a line
RECURSIVE trimEnd(_)
trimEnd(line) ==
    IF line # <<>> /\ line[Len(line)] = Sp
    THEN trimEnd(SubSeq(line, 1, Len(line) - 1))
    ELSE line
RECURSIVE trimStart(_)
trimStart(line) ==
    IF line # <<>> /\ line[1] = Sp THEN trimStart(Tail(line)) ELSE line

\* String.prototype.trim on a text whose lines have been trimmed at the
\* end: blank lines at either end go, and the blanks that lead the first
\* line left
RECURSIVE DropLeadingBlank(_)
DropLeadingBlank(text) ==
    IF text # <<>> /\ trimStart(text[1]) = <<>>
    THEN DropLeadingBlank(Tail(text))
    ELSE text
RECURSIVE DropTrailingBlank(_)
DropTrailingBlank(text) ==
    IF text # <<>> /\ text[Len(text)] = <<>>
    THEN DropTrailingBlank(SubSeq(text, 1, Len(text) - 1))
    ELSE text
trim(text) ==
    LET t == DropTrailingBlank(DropLeadingBlank(text)) IN
    IF t = <<>> THEN t ELSE <<trimStart(t[1])>> \o Tail(t)

\* mutant: the cleaning drops every blank line
CleanMessage_NoBlankLines(text) ==
    SelectSeq([i \in 1..Len(text) |-> trimEnd(text[i])], LAMBDA l : l # <<>>)

\* auth.ts:158-162  message.split('\n').map(l => l.trimEnd()).join('\n').trim()
CleanMessage(text) == trim([i \in 1..Len(text) |-> trimEnd(text[i])])

\* auth.ts:168-182  new SiweMessage(cleanedMessage).  The constructor
\* throws unless the text has the EIP-4361 shape; of a text that has it,
\* these are the fields.
Tagged(line, tag) == Len(line) = 3 /\ line[1] = tag /\ line[2] = Sp
MessageShape(text) ==
    /\ Len(text) = 11
    /\ Len(text[1]) = 3 /\ text[1][2] = Sp /\ text[1][3] = WantsPhrase
    /\ Len(text[2]) = 1 /\ IsAddressFormat(text[2][1])
    /\ text[3] = <<>>
    /\ Len(text[4]) = 1
    /\ text[5] = <<>>
    /\ Tagged(text[6], "URI:")
    /\ Tagged(text[7], "Version:") /\ text[7][3] = "1"
    /\ Tagged(text[8], "Chain ID:") /\ parseInt(text[8][3]) >= 0
    /\ Tagged(text[9], "Nonce:")
    /\ Tagged(text[10], "Issued At:")
    /\ Tagged(text[11], "Expiration Time:")
ParseMessage(text) ==
    [domain |-> text[1][1], address |-> text[2][1],
     statement |-> text[4][1], uri |-> text[6][3],
     version |-> text[7][3], chainId |-> parseInt(text[8][3]),
     nonce |-> text[9][3], issuedAt |-> text[10][3],
     expirationTime |-> text[11][3]]
NoFields ==
    [domain |-> "", address |-> "", statement |-> "", uri |-> "",
     version |-> "", chainId |-> 0, nonce |-> "", issuedAt |-> "",
     expirationTime |-> ""]

\* the times challenges are issued at in SpecRoundTrip
TripTimes == {0, AuthTick, 2 * AuthTick}
MaxNonce == 3           \* nonces drawn in SpecRoundTrip

\* auth.ts:57-97  the challenge is built, its nonce stored, its text sent
TripIssue(address, host, nonce, t) ==
    /\ trip = NoTrip
    /\ LET f == SiweFields(address, host, nonce, t) IN
       trip' = [stage |-> "sent", fields |-> f, text |-> prepareMessage(f),
                stored |-> [key |-> toLowerCase(address), nonce |-> f.nonce]]
    /\ UNCHANGED <<now, last, authVars, claimVars, gateVars, clientVars>>

\* the client posts the text back as it got it (auth.ts:114)
TripReturn ==
    /\ trip.stage = "sent"
    /\ trip' = [trip EXCEPT !.stage = "received"]
    /\ UNCHANGED <<now, last, authVars, claimVars, gateVars, clientVars>>

\* auth.ts:157-185  the text is cleaned and parsed, the record looked up
TripParse ==
    /\ trip.stage = "received"
    /\ LET cleaned == CleanMessage(trip.text)
           ok == MessageShape(cleaned)
           parsed == IF ok THEN ParseMessage(cleaned) ELSE NoFields
       IN  trip' = [stage |-> "parsed", fields |-> trip.fields,
                    text |-> trip.text, stored |-> trip.stored,
                    ok |-> ok, parsed |-> parsed,
                    lookup |-> toLowerCase(parsed.address)]
    /\ UNCHANGED <<now, last, authVars, claimVars, gateVars, clientVars>>

NextRoundTrip ==
    \/ \E a \in ValidAddresses, h \in Hosts, n \in 1..MaxNonce, t \in TripTimes :
          TripIssue(a, h, n, t)
    \/ TripReturn
    \/ TripParse

SpecRoundTrip == InitAuth /\ [][NextRoundTrip]_vars

---------------------------------------------------------------------------
(* Claims about the text of a challenge, under SpecRoundTrip *)

\* C20: parsing the text the issuer built from a valid field set (domain,
\* address, statement, uri, version, chainId, nonce, issuedAt,
\* expirationTime) yields exactly those fields, so the address and nonce
\* recovered at sign-in are those of the record stored at issuance.
C20_RoundTrip ==
    trip.stage = "parsed" =>
        /\ trip.ok
        /\ trip.parsed = trip.fields
        /\ trip.lookup = trip.stored.key
        /\ trip.parsed.nonce = trip.stored.nonce

\* a challenge for a mixed-case address under the default domain has made
\* the trip
C20_Witness ==
    /\ trip.stage = "parsed"
    /\ trip.ok
    /\ trip.parsed.address = "0xCd"
    /\ trip.parsed.domain = "localhost:3003"
    /\ trip.lookup = "0xcd"
    /\ trip.parsed.chainId = 11155111

---------------------------------------------------------------------------
(* The text a client submits, and the answer it gets.  SpecClean issues a  *)
(* challenge, lets the client alter the blanks of its text, and runs the   *)
(* sign-in route on what the client submits.                               *)

\* Date.parse of the text of a time (the library reads issuedAt and
\* expirationTime back as times), and the draw a nonce text stands for
parseIso(s) ==
    CASE s = "1970-01-01T00:00:00.000Z" -> 0
      [] s = "1970-01-01T00:10:00.000Z" -> 600000
      [] s = "1970-01-01T00:20:00.000Z" -> 1200000
      [] s = "1970-01-01T00:30:00.000Z" -> 1800000
      [] s = "1970-01-01T00:40:00.000Z" -> 2400000
      [] OTHER -> 0 - 1
NonceOfText(s) ==
    CASE s = "nonce0001" -> 1
      [] s = "nonce0002" -> 2
      [] s = "nonce0003" -> 3
      [] s = "nonce0004" -> 4
      [] OTHER -> 0

\* the SiweMessage object of parsed fields, as the checks after the parse
\* read it
MsgOfFields(f) ==
    [kind |-> "siwe", address |-> f.address, nonce |-> NonceOfText(f.nonce),
     domain |-> f.domain, issuedAt |-> parseIso(f.issuedAt),
     expirationTime |-> parseIso(f.expirationTime)]

\* what a client may do to the blanks of the text before it posts it
AddSpace(line) == line \o <<Sp>>
BlankVariants ==
    {"asIssued", "spaceOnEachLine", "spacesOnNonceLine", "spaceOnBlankLines",
     "spaceBeforeText", "newlineAfterText", "newlineBeforeText",
     "spaceBeforeAddress"}
\* the variants that differ from the issued text only by trailing
\* whitespace on lines
TrailingOnly ==
    {"asIssued", "spaceOnEachLine", "spacesOnNonceLine", "spaceOnBlankLines"}
Altered(text, v) ==
    CASE v = "asIssued" -> text
      [] v = "spaceOnEachLine" -> [i \in 1..Len(text) |-> AddSpace(text[i])]
      [] v = "spacesOnNonceLine" ->
            [text EXCEPT ![9] = AddSpace(AddSpace(text[9]))]
      [] v = "spaceOnBlankLines" ->
            [i \in 1..Len(text) |->
                IF text[i] = <<>> THEN AddSpace(text[i]) ELSE text[i]]
      [] v = "spaceBeforeText" -> [text EXCEPT ![1] = <<Sp>> \o text[1]]
      [] v = "newlineAfterText" -> text \o << <<>> >>
      [] v = "newlineBeforeText" -> << <<>> >> \o text
      [] v = "spaceBeforeAddress" -> [text EXCEPT ![2] = <<Sp>> \o text[2]]

\* auth.ts:112-252  status and error of the answer to a submitted text
SubmitResponse(store, text, sig, host, t) ==
    LET cleaned == CleanMessage(text) IN
    IF text = <<>> \/ sig = "" THEN <<400, "Datos incompletos">>
    ELSE IF ~MessageShape(cleaned) THEN <<400, "Mensaje invalido">>
    ELSE SigninResponse(store, MsgOfFields(ParseMessage(cleaned)), sig, host, t)

\* the client posts the text, its blanks altered or not
CleanReturn(v) ==
    /\ trip.stage = "sent"
    /\ trip' = [stage |-> "submitted", fields |-> trip.fields,
                issued |-> trip.text, text |-> Altered(trip.text, v),
                variant |-> v]
    /\ UNCHANGED <<now, last, authVars, claimVars, gateVars, clientVars>>

\* the sign-in route answers, `t` after the challenge was issued, the
\* record of the challenge being the only one in the store
CleanSignin(sig, host, t) ==
    /\ trip.stage = "submitted"
    /\ LET m == MsgOfFields(trip.fields)
           store == StoreAfterMessage(EmptyMap, m.address, m.nonce, m.issuedAt)
           cleaned == CleanMessage(trip.text)
           ok == MessageShape(cleaned)
       IN  trip' = [stage |-> "answered", fields |-> trip.fields,
                    issued |-> trip.issued, text |-> trip.text,
                    variant |-> trip.variant, cleaned |-> cleaned, ok |-> ok,
                    parsed |-> IF ok THEN ParseMessage(cleaned) ELSE NoFields,
                    answer |-> SubmitResponse(store, trip.text, sig, host,
                                              m.issuedAt + t),
                    answerIssued |-> SubmitResponse(store, trip.issued, sig,
                                                    host, m.issuedAt + t)]
    /\ UNCHANGED <<now, last, authVars, claimVars, gateVars, clientVars>>

NextClean ==
    \/ \E a \in ValidAddresses, h \in Hosts, n \in 1..MaxNonce, t \in TripTimes :
          TripIssue(a, h, n, t)
    \/ \E v \in BlankVariants : CleanReturn(v)
    \/ \E s \in SigKinds, h \in Hosts, t \in {0, AuthTick, 2 * AuthTick} :
          CleanSignin(s, h, t)

SpecClean == InitAuth /\ [][NextClean]_vars

---------------------------------------------------------------------------
(* Claims about the cleaning of a submitted text, under SpecClean *)

\* C21: the cleaning before the parse (trailing whitespace of each line,
\* then of the whole text) is idempotent and leaves the text the issuer
\* built as it is; a submitted text that differs from the issued one only
\* by trailing whitespace on lines is parsed to the same fields and gets
\* the same answer as the issued text.
C21_Cleaning ==
    trip.stage = "answered" =>
        /\ CleanMessage(trip.cleaned) = trip.cleaned
        /\ CleanMessage(trip.issued) = trip.issued
        /\ trip.variant \in TrailingOnly =>
               /\ trip.ok
               /\ trip.parsed = trip.fields
               /\ trip.answer = trip.answerIssued

\* a text with a blank after each line, signed by the owner, has been
\* accepted
C21_Witness ==
    /\ trip.stage = "answered"
    /\ trip.variant = "spaceOnEachLine"
    /\ trip.text # trip.issued
    /\ trip.answer = <<200, "">>

---------------------------------------------------------------------------
(* The clock reads of POST /auth/message.  The handler reads the clock     *)
(* three times: `new Date()` for issuedAt (auth.ts:65), `Date.now()` for   *)
(* expirationTime (auth.ts:66) and `Date.now()` for the record's timestamp *)
(* (auth.ts:88).  SpecClock lets the millisecond clock move between them.  *)

\* by how much the clock can move between two reads of one handler
ClockSteps == {0, 1}

\* auth.ts:65-77  the message, issuedAt read at t1 and expirationTime
\* computed from the clock read at t2
BuildMessageReads(address, host, nonce, t1, t2) ==
    [BuildMessage(address, host, nonce, t1)
        EXCEPT !.expirationTime = t2 + 10 * 60 * 1000]

\* the handler of auth.ts:33-106, the clock moving by d1 between the first
\* and the second read and by d2 between the second and the third
MessageReads(address, host, d1, d2) ==
    /\ last = Idle
    /\ UNCHANGED <<nextSweep, pending, reqSeq, sessions, claimVars,
                   gateVars, trip,
                   clientVars>>
    /\ IF address = "" THEN
           /\ last' = Event("message", address, 0, 400, "Direccion requerida")
           /\ UNCHANGED <<now, nonceStore, nonceSeq, msgs, spoiled>>
       ELSE IF ~IsAddressFormat(address) THEN
           /\ last' = Event("message", address, 0, 400, "Direccion invalida")
           /\ UNCHANGED <<now, nonceStore, nonceSeq, msgs, spoiled>>
       ELSE
           /\ nonceSeq + reqSeq < MaxRequests
           /\ nonceSeq' = nonceSeq + 1
           /\ msgs' = msgs \cup {BuildMessageReads(address, host, generateNonce,
                                                   now, now + d1)}
           /\ nonceStore' = StoreAfterMessage(nonceStore, address, generateNonce,
                                              now + d1 + d2)
           /\ now' = now + d1 + d2
           /\ spoiled' = spoiled \ {toLowerCase(address)}
           /\ last' = Event("message", toLowerCase(address), generateNonce, 200, "")

NextClock ==
    \/ \E a \in AddressInputs, h \in MessageHosts, d1 \in ClockSteps,
          d2 \in ClockSteps : MessageReads(a, h, d1, d2)
    \/ Deliver

SpecClock == InitAuth /\ [][NextClock]_vars

---------------------------------------------------------------------------
(* Claims about the times of a challenge, under SpecClock *)

\* C22: for every issued challenge, expirationTime minus issuedAt in the
\* message is exactly 10 minutes, and the expiry enforced at sign-in (the
\* stored timestamp plus 10 minutes) is the message's expirationTime, also
\* when the clock advances between the clock reads of the handler.
C22_TenMinutes ==
    \A m \in msgs :
        /\ m.expirationTime - m.issuedAt = expireTime
        /\ \A k \in DOMAIN nonceStore :
               nonceStore[k].nonce = m.nonce =>
                   nonceStore[k].timestamp + expireTime = m.expirationTime

---------------------------------------------------------------------------
(* Claims about the order of the sign-in checks, under SpecAuth *)

\* the first step of parse, nonce lookup, nonce comparison, expiry and
\* signature that a request fails at the state it meets, or "none"
FirstFailing(store, m, sig, host, t) ==
    LET key == toLowerCase(m.address) IN
    IF m.kind # "siwe" THEN "parse"
    ELSE IF key \notin DOMAIN store THEN "lookup"
    ELSE IF store[key].nonce # m.nonce THEN "comparison"
    ELSE IF t - store[key].timestamp > expireTime THEN "expiry"
    ELSE IF SiweVerify(m, sig, VerifyDomain(host), store[key].nonce, t) # "success"
    THEN "signature"
    ELSE "none"

\* C23: the sign-in checks are applied in the order parse, nonce lookup,
\* nonce comparison, expiry, signature, and the first failing one decides
\* the answer: an expired challenge with a bad signature is answered as
\* expired and its record removed; a wrong nonce against an expired record
\* is answered as a nonce failure and the record is left in the store.
C23_Step ==
    \A m \in msgs \cup {GarbageMsg}, s \in SigKinds \ {""}, h \in Hosts :
        SigninStart(m, s, h) =>
            LET key == toLowerCase(m.address)
                first == FirstFailing(nonceStore, m, s, h, now)
            IN  /\ first = "parse" =>
                       /\ last'.status = 400 /\ last'.error = "Mensaje invalido"
                       /\ nonceStore' = nonceStore
                /\ first \in {"lookup", "comparison"} =>
                       /\ last'.status = 400 /\ last'.error = "Nonce invalido"
                       /\ nonceStore' = nonceStore
                /\ first = "expiry" =>
                       /\ last'.status = 400 /\ last'.error = "Mensaje expirado"
                       /\ nonceStore' = MapDelete(nonceStore, key)
                /\ first \in {"signature", "none"} =>
                       /\ last' = last
                       /\ nonceStore' = nonceStore
                       /\ \E p \in BagToSet(pending') :
                              /\ CopiesIn(p, pending') > CopiesIn(p, pending)
                              /\ p.msg = m
                              /\ (p.result = "success") = (first = "none")

C23_CheckOrder == [][C23_Step]_vars

\* a sign-in with a superseded nonce has met an expired record: it was
\* answered as a nonce failure and the record is still in the store
C23_Witness ==
    /\ last.op = "signin"
    /\ last.error = "Nonce invalido"
    /\ MapHas(nonceStore, last.addr)
    /\ nonceStore[last.addr].nonce # last.nonce
    /\ now - nonceStore[last.addr].timestamp > expireTime

---------------------------------------------------------------------------
(* Claims about whom a claim is booked to, under SpecClaim *)

\* what hasAddressClaimed reports for an address after the step
ClaimedAfterStep(a) ==
    IF demoMode THEN DemoHasClaimed(claimedAddresses', a)
    ELSE ContractHasClaimed(chainClaimed', a)

\* C24: a successful claimTokens(recipient) changes the claimed status of
\* exactly the recipient, the address carried in the session token, and of
\* no other address, on the demo ledger and on the chain.
C24_Step ==
    (last' # last /\ last'.op = "claim" /\ last'.status = 200) =>
        \A a \in LedgerAddresses :
            (ClaimedAfterStep(a) # HasAddressClaimed(a))
                <=> (toLowerCase(a) = last'.token.address)

C24_RecipientOnly == [][C24_Step]_vars
----------------------------------------------------------------------------
(* Claim C25: the daily quota of the claim route *)

\* this step counted a claim request of ip
ClaimCounted(ip) ==
    /\ MapHas(claimHits', ip)
    /\ ~MapHas(claimHits, ip) \/ claimHits'[ip] # claimHits[ip]
\* a claim request of ip reached the handler less than 24 hours ago: the
\* window of ip begins with the request that reached the handler
ReachedWithinDay(ip) ==
    /\ MapHas(claimHits, ip)
    /\ now - (claimHits[ip].resetTime - claimWindowMs) < claimWindowMs
\* this step let a claim request into the handler
ClaimReaches == \E r \in BagToSet(inflight') : ClaimAdmitted(r)
\* this step made no call that changes a ledger
NoLedgerCall ==
    /\ claimedAddresses' = claimedAddresses
    /\ demoUsers' = demoUsers
    /\ chainClaimed' = chainClaimed
    /\ txSeq' = txSeq

C25_Step ==
    /\ (Answered /\ last'.op = "claim" /\ last'.status = 401)
           => claimHits' = claimHits
    /\ ClaimReaches => \E ip \in IPs : ClaimCounted(ip)
    /\ \A ip \in IPs : ClaimCounted(ip) =>
           IF ReachedWithinDay(ip)
           THEN /\ ClaimTurnedAway
                /\ last'.status = 429
                /\ NoLedgerCall
                /\ claimHits'[ip].resetTime = claimHits[ip].resetTime
           ELSE /\ ClaimReaches
                /\ claimHits'[ip].resetTime = now + claimWindowMs

\* C25: within 24 hours at most one authenticated claim request of an IP
\* reaches the claim handler: a request of an IP that had one reach the
\* handler less than 24 hours ago is answered 429 without any ledger call
\* and without moving the window, whatever became of the earlier claim; a
\* request that authenticateToken rejects (401) is not counted.
C25_DailyQuota == [][C25_Step]_vars

\* a second authenticated request of an IP was answered 429 although no
\* claim has succeeded and none is in progress
C25_Witness ==
    /\ last.op = "claim"
    /\ last.status = 429
    /\ claimsOk = EmptyBag
    /\ inflight = EmptyBag
    /\ \E ip \in IPs : MapHas(claimHits, ip) /\ claimHits[ip].count = 2

----------------------------------------------------------------------------
(* Claim C26: the seeded entries of the demo ledger *)

\* the letter-casings of an address that the model tells apart
Casings(a) == {b \in LedgerAddresses : toLowerCase(b) = toLowerCase(a)}
\* the user list holds two entries for one address
ListedTwice ==
    \E i, j \in 1..Len(demoUsers) :
        i < j /\ toLowerCase(demoUsers[i]) = toLowerCase(demoUsers[j])

\* C26: in the demo ledger every address of the initial claimed set is
\* reported as claimed by hasAddressClaimed and refused by claimTokens in
\* any letter-casing, and the user list never holds two entries for one
\* address.
C26_SeedsStayClaimed ==
    /\ \A a \in InitialClaimed : \A b \in Casings(a) :
           /\ DemoHasClaimed(claimedAddresses, b)
           /\ DemoClaimRejects(claimedAddresses, b)
    /\ ~ListedTwice

----------------------------------------------------------------------------
(* Claim C27: what a successful sign-in removes *)

\* C27: a successful sign-in removes only the record it verified against;
\* a record that a newer challenge for the address stored while the
\* verification was pending is still there, unchanged, when the older
\* sign-in has completed.
C27_Step ==
    \A p \in BagToSet(pending) :
        (Resumed(p) /\ last'.status = 200
           /\ MapHas(nonceStore, KeyOf(p.msg))
           /\ nonceStore[KeyOf(p.msg)].nonce # p.msg.nonce) =>
            /\ MapHas(nonceStore', KeyOf(p.msg))
            /\ nonceStore'[KeyOf(p.msg)] = nonceStore[KeyOf(p.msg)]

C27_RemovesOwnRecordOnly == [][C27_Step]_vars

----------------------------------------------------------------------------
(* Claim C28: what a step for one address does to another *)

\* the record stored under key k differs before and after this step
RecordChanged(k) ==
    \/ MapHas(nonceStore, k) # MapHas(nonceStore', k)
    \/ MapHas(nonceStore, k) /\ MapHas(nonceStore', k)
           /\ nonceStore'[k] # nonceStore[k]
\* this step answered a challenge or sign-in request for address k, in any
\* letter-casing
AuthStepFor(k) ==
    /\ Answered
    /\ last'.op \in {"message", "signin"}
    /\ toLowerCase(last'.addr) = toLowerCase(k)
\* the record under k is past its lifetime
RecordExpired(k) ==
    MapHas(nonceStore, k) /\ now - nonceStore[k].timestamp > expireTime
\* letter-casings of one address have one record and one claimed status
SharedByCase ==
    /\ \A k \in DOMAIN nonceStore : k = toLowerCase(k)
    /\ \A a, b \in LedgerAddresses :
           toLowerCase(a) = toLowerCase(b)
               => HasAddressClaimed(a) = HasAddressClaimed(b)

C28_NonceStep ==
    \A k \in DOMAIN nonceStore \cup DOMAIN nonceStore' :
        RecordChanged(k) => (AuthStepFor(k) \/ RecordExpired(k))

C28_ClaimedStep ==
    \A b \in LedgerAddresses :
        (ClaimedAfterStep(b) # HasAddressClaimed(b)) =>
            \/ \E r \in BagToSet(inflight) :
                   ClaimResumed(r) /\ toLowerCase(r.user) = toLowerCase(b)
            \/ \E a \in Users :
                   DirectClaim(a) /\ toLowerCase(a) = toLowerCase(b)

\* C28: a challenge, a sign-in, a sweep or a claim changes the nonce record
\* and the claimed status only of the address it is for (a sweep: only of
\* expired records), never of an address that differs from it by more than
\* letter case; letter-casings of one address share one nonce record and
\* one claimed status.
C28_Isolation == [](SharedByCase) /\ [][C28_NonceStep /\ C28_ClaimedStep]_vars

----------------------------------------------------------------------------
(* The client: useAuth (hooks/useAuth.ts), the token kept by ApiService     *)
(* (services/api.ts) and the button of AuthButton.  Init is the page after  *)
(* its first render with no wallet connected: the effect of                 *)
(* useAuth.ts:42-46 has run handleLogout.  The backend's and the wallet's   *)
(* answers are inputs of the client.                                        *)

MaxAuthCalls == 3
MaxWalletEvents == 3

\* the awaits of authenticate()  (useAuth.ts:75, 85, 106)
AwaitMessage == "requestMessage"
AwaitSignature == "signMessageAsync"
AwaitSignIn == "signIn"

\* the token of a sign-in response
SessionText == "jwt"

\* what an await of authenticate() can throw: the backend's error texts
\* (api.ts:133-137) and the wallet's
BackendErrors == {"Nonce inválido", "Firma inválida", "HTTP Error: 500"}
WalletErrors == {"User rejected the request", "Unknown wallet error"}

\* useAuth.ts:89-97  the catch around signMessageAsync: what it throws on
SignError(msg) ==
    IF msg = "User rejected the request" THEN "Firma cancelada por el usuario"
    ELSE "Error al firmar"

\* useAuth.ts:124-134  the text shown for a caught error
ErrorMessage(msg) ==
    IF msg = "User rejected the request" THEN "Firma cancelada por el usuario"
    ELSE IF msg = "Nonce inválido" THEN "Sesión expirada. Intenta nuevamente."
    ELSE IF msg = "Firma inválida" THEN "Firma inválida. Verifica tu wallet."
    ELSE msg

\* useAuth.ts:182
isLoading(status) == status \in {"requesting", "signing", "authenticating"}

\* useAuth.ts:147-153 with api.ts:164-166, 93-100
handleLogout ==
    /\ apiToken' = ""
    /\ isAuthenticated' = FALSE
    /\ authStatus' = "idle"
    /\ authError' = ""
    /\ loggedOut' = TRUE

\* useAuth.ts:120-141  the catch of authenticate()
AuthCatch(msg) ==
    /\ authError' = ErrorMessage(msg)
    /\ authStatus' = "error"
    /\ isAuthenticated' = FALSE

\* the wallet connects; the effect of useAuth.ts:42-46 does nothing
WalletConnect ==
    /\ ~isConnected
    /\ walletSeq < MaxWalletEvents
    /\ isConnected' = TRUE
    /\ walletSeq' = walletSeq + 1
    /\ UNCHANGED <<now, last, authVars, claimVars, gateVars, trip, apiToken,
                   authStatus, isAuthenticated, authError, calls, resetTimers,
                   authSeq, loggedOut>>

\* the wallet disconnects and the effect of useAuth.ts:42-46 runs handleLogout
WalletDisconnect ==
    /\ isConnected
    /\ walletSeq < MaxWalletEvents
    /\ isConnected' = FALSE
    /\ walletSeq' = walletSeq + 1
    /\ handleLogout
    /\ UNCHANGED <<now, last, authVars, claimVars, gateVars, trip, calls,
                   resetTimers, authSeq>>

\* AuthButton.tsx:24-30, 82-86  a click on the button, which is rendered
\* when the wallet is connected and enabled when isLoading is false; with
\* useAuth.ts:63-75, authenticate() up to its first await
handleAuthClick ==
    /\ isConnected
    /\ ~isLoading(authStatus)
    /\ UNCHANGED <<now, last, authVars, claimVars, gateVars, trip,
                   isConnected, resetTimers, walletSeq>>
    /\ IF isAuthenticated THEN
           /\ handleLogout
           /\ UNCHANGED <<calls, authSeq>>
       ELSE
           /\ authSeq < MaxAuthCalls
           /\ authSeq' = authSeq + 1
           /\ authStatus' = "requesting"
           /\ authError' = ""
           /\ calls' = calls (+) SetToBag({AwaitMessage})
           /\ loggedOut' = FALSE
           /\ UNCHANGED <<apiToken, isAuthenticated>>

\* useAuth.ts:75-85  authenticate() from the settling of requestMessage to
\* the call of signMessageAsync, or to the end of its catch
MessageSettles(err) ==
    /\ BagIn(AwaitMessage, calls)
    /\ UNCHANGED <<now, last, authVars, claimVars, gateVars, trip,
                   isConnected, apiToken, resetTimers, authSeq, walletSeq,
                   loggedOut>>
    /\ IF err = "" THEN
           /\ authStatus' = "signing"
           /\ calls' = (calls (-) SetToBag({AwaitMessage}))
                           (+) SetToBag({AwaitSignature})
           /\ UNCHANGED <<isAuthenticated, authError>>
       ELSE
           /\ calls' = calls (-) SetToBag({AwaitMessage})
           /\ AuthCatch(err)

\* useAuth.ts:85-106  from the settling of signMessageAsync to the call of
\* signIn, or to the end of the catch
SignatureSettles(err) ==
    /\ BagIn(AwaitSignature, calls)
    /\ UNCHANGED <<now, last, authVars, claimVars, gateVars, trip,
                   isConnected, apiToken, resetTimers, authSeq, walletSeq,
                   loggedOut>>
    /\ IF err = "" THEN
           /\ authStatus' = "authenticating"
           /\ calls' = (calls (-) SetToBag({AwaitSignature}))
                           (+) SetToBag({AwaitSignIn})
           /\ UNCHANGED <<isAuthenticated, authError>>
       ELSE
           /\ calls' = calls (-) SetToBag({AwaitSignature})
           /\ AuthCatch(SignError(err))

\* api.ts:183-193 and useAuth.ts:106-118  from the settling of the sign-in
\* request to the return of authenticate(): the token is saved, the state
\* set and the timer of useAuth.ts:113-115 started; or the catch
SignInSettles(err) ==
    /\ BagIn(AwaitSignIn, calls)
    /\ calls' = calls (-) SetToBag({AwaitSignIn})
    /\ UNCHANGED <<now, last, authVars, claimVars, gateVars, trip,
                   isConnected, authSeq, walletSeq, loggedOut>>
    /\ IF err = "" THEN
           /\ apiToken' = SessionText
           /\ isAuthenticated' = TRUE
           /\ authStatus' = "authenticated"
           /\ resetTimers' = resetTimers + 1
           /\ UNCHANGED authError
       ELSE
           /\ AuthCatch(err)
           /\ UNCHANGED <<apiToken, resetTimers>>

\* useAuth.ts:113-115  the callback of setTimeout(..., 3000)
ResetTimerFires ==
    /\ resetTimers > 0
    /\ resetTimers' = resetTimers - 1
    /\ authStatus' = "idle"
    /\ UNCHANGED <<now, last, authVars, claimVars, gateVars, trip,
                   isConnected, apiToken, isAuthenticated, authError, calls,
                   authSeq, walletSeq, loggedOut>>

\* useAuth.ts:51-58  the callback of setTimeout(..., 5000)
ErrorTimerFires ==
    /\ authError # ""
    /\ authError' = ""
    /\ UNCHANGED <<now, last, authVars, claimVars, gateVars, trip,
                   isConnected, apiToken, authStatus, isAuthenticated, calls,
                   resetTimers, authSeq, walletSeq, loggedOut>>

\* useAuth.ts:158-163  clearError, from the button of AuthButton.tsx:128-141
clearError ==
    /\ isConnected
    /\ authError # ""
    /\ authError' = ""
    /\ authStatus' = IF authStatus = "error" THEN "idle" ELSE authStatus
    /\ UNCHANGED <<now, last, authVars, claimVars, gateVars, trip,
                   isConnected, apiToken, isAuthenticated, calls, resetTimers,
                   authSeq, walletSeq, loggedOut>>

NextClient ==
    \/ WalletConnect
    \/ WalletDisconnect
    \/ handleAuthClick
    \/ \E err \in BackendErrors \cup {""} : MessageSettles(err)
    \/ \E err \in WalletErrors \cup {""} : SignatureSettles(err)
    \/ \E err \in BackendErrors \cup {""} : SignInSettles(err)
    \/ ResetTimerFires
    \/ ErrorTimerFires
    \/ clearError

SpecClient == Init /\ [][NextClient]_vars

----------------------------------------------------------------------------
(* Claims about the client, under SpecClient *)

\* C29: once the wallet has disconnected or logout has been called, the
\* client holds no session token and isAuthenticated is false until
\* authenticate() is called again, also when an earlier authenticate() is
\* still waiting for the backend or the wallet at that moment.
C29_LoggedOutStays ==
    loggedOut => (apiToken = "" /\ ~isAuthenticated)

\* an authenticate() call is in flight
InFlight == calls # EmptyBag
\* the order of authStatus: the moves of a call in flight
StatusMove(from, to) ==
    \/ from \in {"idle", "error"} /\ to = "requesting"
    \/ from = "requesting" /\ to = "signing"
    \/ from = "signing" /\ to = "authenticating"
    \/ from = "authenticating" /\ to = "authenticated"
    \/ from \in {"requesting", "signing", "authenticating"} /\ to = "error"

C30_Step ==
    /\ (InFlight /\ authStatus' # authStatus) => StatusMove(authStatus, authStatus')
    /\ (calls' # calls /\ authStatus' # authStatus)
           => StatusMove(authStatus, authStatus')

\* C30: while an authenticate() call is in flight authStatus is requesting,
\* signing or authenticating, so that the button is disabled and no second
\* call can be started; authStatus moves only idle/error -> requesting ->
\* signing -> authenticating -> authenticated or error; nothing left over
\* from an earlier authentication sets it to idle during a later call.
C30_StatusMachine ==
    [](InFlight => isLoading(authStatus)) /\ [][C30_Step]_vars

=============================================================================
